---- MODULE Spec2Model ----
(***************************************************************************)
(* Model of the ikari scene graph (ikari/src/scene.rs): the generational   *)
(* node arena, its free list, the ancestry walk and global transform       *)
(* composition, the skeleton parent maps and merge_scene.                  *)
(*                                                                         *)
(* Conventions.  An Option<T> is a sequence of length 0 (None) or 1        *)
(* (Some(x)).  Slot indices and generations are 0-based as in the source;  *)
(* the arena `nodes` is a TLA+ sequence, so slot i is nodes[i + 1].        *)
(* A call that can panic returns a record [panic, value].                  *)
(***************************************************************************)
EXTENDS Integers, Sequences, FiniteSets, TLC

\* ------------------------------------------------------------------ bounds
\* Largest arena length add_node appends up to.
MaxNodes == 3
\* Largest number of slot reuses (the sum of the slot generations).
MaxGen == 2
\* The same two caps where scenes are also merged.
MaxMergeNodes == 3
MaxMergeGen == 1
\* Largest arena length of a scene that is merged in.
MaxOtherNodes == 2
\* Number of add_node / remove_node calls made on a scene before it is merged in.
MaxOtherSteps == 2
\* Largest keyframe time, in ticks, and largest number of keyframes of a channel.
MaxKeyframeTime == 3
MaxKeyframes == 2
\* Largest keyframe time and largest number of keyframes of the time arrays
\* searched on their own: any order, with repeats.
MaxNearbyTime == 2
MaxNearbyKeyframes == 3
\* Largest arena length that add_node and merge_scene grow the arena to, and
\* largest number of slot reuses, where the caches are recomputed.
MaxCacheNodes == 2
MaxCacheGen == 1
\* Largest number of nodes in a scene grown as one chain.
MaxHierarchyNodes == 33
\* Largest play-head time, in ticks, and largest number of slot reuses where
\* animations are stepped.
MaxAnimTime == 3
MaxAnimGen == 1

\* ------------------------------------------------------------------ Option
None == <<>>
Some(x) == <<x>>

\* The elements of a sequence, as a set.
Range(s) == {s[k] : k \in 1..Len(s)}

\* ------------------------------------------------------------------ Transform
Vec3Add(a, b) == <<a[1] + b[1], a[2] + b[2], a[3] + b[3]>>
Vec3Sub(a, b) == <<a[1] - b[1], a[2] - b[2], a[3] - b[3]>>
Vec3Scale(k, a) == <<k * a[1], k * a[2], k * a[3]>>
Vec3Half(a) == <<a[1] \div 2, a[2] \div 2, a[3] \div 2>>
Abs(x) == IF x < 0 THEN -x ELSE x
\* Euclidean length, exact for the axis-aligned vectors the model uses.
Vec3Length(a) == Abs(a[1]) + Abs(a[2]) + Abs(a[3])

\* A transform with a position and a uniform scale (no rotation).
Transform(p, s) == [position |-> p, scale |-> s]
IDENTITY == Transform(<<0, 0, 0>>, 1)

\* A * B: B is applied in A's local space.
TransformMul(a, b) ==
    Transform(Vec3Add(a.position, Vec3Scale(a.scale, b.position)), a.scale * b.scale)

TransformPoint3(t, p) == Vec3Add(t.position, Vec3Scale(t.scale, p))

\* The local transforms given to nodes.
TX == Transform(<<1, 0, 0>>, 1)
TY == Transform(<<0, 1, 0>>, 1)
S2 == Transform(<<0, 0, 0>>, 2)

\* ------------------------------------------------------------------ ids, nodes
GameNodeId(index, gen) == [index |-> index, gen |-> gen]

GameNodeVisual(mesh_index, binded_material_index) ==
    [mesh_index |-> mesh_index, binded_material_index |-> binded_material_index]

GameNodeDesc(transform, skin_index, visual, parent_id) ==
    [transform |-> transform, skin_index |-> skin_index, visual |-> visual,
     parent_id |-> parent_id]

\* GameNodeDesc::default()
DefaultDesc == GameNodeDesc(IDENTITY, None, None, None)

\* The closure make_new_node of add_node.
MakeNewNode(desc, id) ==
    [transform |-> desc.transform, skin_index |-> desc.skin_index,
     visual |-> desc.visual, parent_id |-> desc.parent_id, id |-> id]

Slot(node, gen) == [node |-> node, gen |-> gen]

\* ------------------------------------------------------------------ results
\* The outcome of a call that returns a value or panics (an unwrap of None, an
\* index past the end of a fixed array).
Ok(v) == [panic |-> FALSE, value |-> v]
Panic == [panic |-> TRUE, value |-> IDENTITY]
\* The call never returns.
Diverges == [panic |-> FALSE, diverges |-> TRUE]

\* ------------------------------------------------------------------ Scene
\* A Scene value: the fields of struct Scene.
SceneOf(n, e, sk, an, maps) ==
    [nodes |-> n, empty_node_indices |-> e, skins |-> sk, animations |-> an,
     skeleton_parent_index_maps |-> maps]

\* Mutant of get_node: the generation of the id is not compared.
GetNodeIgnoringGeneration(S, node_id) == S.nodes[node_id.index + 1].node

\* Scene::get_node
GetNode(S, node_id) ==
    LET slot == S.nodes[node_id.index + 1] IN
    IF slot.gen = node_id.gen THEN slot.node ELSE None

\* Mutant of get_node_mut: the generation of the id is not compared.
GetNodeMutByIndex(S, node_id) == S.nodes[node_id.index + 1].node

\* Scene::get_node_mut: the same lookup, handing out a mutable reference.
GetNodeMut(S, node_id) ==
    LET slot == S.nodes[node_id.index + 1] IN
    IF slot.gen = node_id.gen THEN slot.node ELSE None

\* Scene::nodes: the live nodes in slot order.
RECURSIVE NodesFrom(_, _)
NodesFrom(S, k) ==
    IF k > Len(S.nodes) THEN <<>>
    ELSE S.nodes[k].node \o NodesFrom(S, k + 1)

Nodes(S) == NodesFrom(S, 1)

\* Scene::node_count
NodeCount(S) == Cardinality({k \in 1..Len(S.nodes) : S.nodes[k].node # None})

\* Mutant of add_node: a reused slot keeps its generation.
AddNodeKeepingGeneration(S, desc) ==
    IF S.empty_node_indices # <<>>
    THEN LET n == Len(S.empty_node_indices)
             empty_node_index == S.empty_node_indices[n]
             new_gen == S.nodes[empty_node_index + 1].gen
             id == GameNodeId(empty_node_index, new_gen)
         IN [scene |-> [S EXCEPT !.empty_node_indices = SubSeq(@, 1, n - 1),
                                 !.nodes[empty_node_index + 1] =
                                     Slot(Some(MakeNewNode(desc, id)), new_gen)],
             id |-> id]
    ELSE LET id == GameNodeId(Len(S.nodes), 0)
         IN [scene |-> [S EXCEPT !.nodes = Append(@, Slot(Some(MakeNewNode(desc, id)), 0))],
             id |-> id]

\* Mutant of add_node: the free list is never consulted.
AddNodeAlwaysAppending(S, desc) ==
    LET id == GameNodeId(Len(S.nodes), 0)
    IN [scene |-> [S EXCEPT !.nodes = Append(@, Slot(Some(MakeNewNode(desc, id)), 0))],
        id |-> id]

\* Mutant of add_node: the free slot is read from the end of the free list but
\* left on it.
AddNodeKeepingFreeIndex(S, desc) ==
    IF S.empty_node_indices # <<>>
    THEN LET n == Len(S.empty_node_indices)
             empty_node_index == S.empty_node_indices[n]
             new_gen == S.nodes[empty_node_index + 1].gen + 1
             id == GameNodeId(empty_node_index, new_gen)
         IN [scene |-> [S EXCEPT !.nodes[empty_node_index + 1] =
                                     Slot(Some(MakeNewNode(desc, id)), new_gen)],
             id |-> id]
    ELSE LET id == GameNodeId(Len(S.nodes), 0)
         IN [scene |-> [S EXCEPT !.nodes = Append(@, Slot(Some(MakeNewNode(desc, id)), 0))],
             id |-> id]

\* Scene::add_node: the scene after the call and the id of the node it returns.
AddNode(S, desc) ==
    IF S.empty_node_indices # <<>>
    THEN LET n == Len(S.empty_node_indices)
             empty_node_index == S.empty_node_indices[n]
             empty_node_gen == S.nodes[empty_node_index + 1].gen
             new_gen == empty_node_gen + 1
             id == GameNodeId(empty_node_index, new_gen)
         IN [scene |-> [S EXCEPT !.empty_node_indices = SubSeq(@, 1, n - 1),
                                 !.nodes[empty_node_index + 1] =
                                     Slot(Some(MakeNewNode(desc, id)), new_gen)],
             id |-> id]
    ELSE LET id == GameNodeId(Len(S.nodes), 0)
         IN [scene |-> [S EXCEPT !.nodes = Append(@, Slot(Some(MakeNewNode(desc, id)), 0))],
             id |-> id]

\* scene.rs: const REBUILD_SKELETON_PARENT_MAP_ON_REMOVE
REBUILD_SKELETON_PARENT_MAP_ON_REMOVE == FALSE

\* Scene::rebuild_skeleton_parent_index_maps: for each skin, the map from the
\* slot index of each bone that is live and has a parent to the slot index of
\* that parent, keyed by the slot index of the skin's node (a later skin with
\* the same key replaces an earlier one).
SkeletonParentIndexMap(S, skin) ==
    LET bones == {skin.bone_node_ids[k].index : k \in 1..Len(skin.bone_node_ids)}
        mapped == {b \in bones : /\ S.nodes[b + 1].node # None
                                 /\ S.nodes[b + 1].node[1].parent_id # None}
    IN [b \in mapped |-> S.nodes[b + 1].node[1].parent_id[1].index]

RebuildSkeletonParentIndexMaps(S) ==
    LET keys == {S.skins[k].node_id.index : k \in 1..Len(S.skins)}
        lastSkin(r) == S.skins[CHOOSE k \in 1..Len(S.skins) :
                          /\ S.skins[k].node_id.index = r
                          /\ \A j \in 1..Len(S.skins) :
                                S.skins[j].node_id.index = r => j <= k]
    IN [S EXCEPT !.skeleton_parent_index_maps =
                     [r \in keys |-> SkeletonParentIndexMap(S, lastSkin(r))]]

\* Mutant of remove_node: the skeleton parent maps are rebuilt after the slot is
\* emptied, as with REBUILD_SKELETON_PARENT_MAP_ON_REMOVE set.
RemoveNodeRebuildingSkeletonMaps(S, node_id) ==
    IF GetNode(S, node_id) # None
    THEN LET node_index == GetNode(S, node_id)[1].id.index
         IN RebuildSkeletonParentIndexMaps(
                [S EXCEPT !.nodes[node_index + 1].node = None,
                          !.empty_node_indices = Append(@, node_index)])
    ELSE S

\* Mutant of remove_node: the slot is emptied whatever generation the id carries.
RemoveNodeByIndex(S, node_id) ==
    IF S.nodes[node_id.index + 1].node # None
    THEN [S EXCEPT !.nodes[node_id.index + 1].node = None,
                   !.empty_node_indices = Append(@, node_id.index)]
    ELSE S

\* Mutant of remove_node: freeing a slot already advances its generation.
RemoveNodeAdvancingGeneration(S, node_id) ==
    IF GetNode(S, node_id) # None
    THEN LET node_index == GetNode(S, node_id)[1].id.index
         IN [S EXCEPT !.nodes[node_index + 1] = Slot(None, @.gen + 1),
                      !.empty_node_indices = Append(@, node_index)]
    ELSE S

\* Scene::remove_node (REBUILD_SKELETON_PARENT_MAP_ON_REMOVE is false).
RemoveNode(S, node_id) ==
    IF GetNode(S, node_id) # None
    THEN LET node_index == GetNode(S, node_id)[1].id.index
             taken == [S EXCEPT !.nodes[node_index + 1].node = None,
                                !.empty_node_indices = Append(@, node_index)]
         IN IF REBUILD_SKELETON_PARENT_MAP_ON_REMOVE
            THEN RebuildSkeletonParentIndexMaps(taken)
            ELSE taken
    ELSE S

\* Scene::get_node_ancestry_list: successors(Some(node_id), parent of the node the
\* id resolves to).  The id handed in and every parent_id read are yielded before
\* they are looked up.
RECURSIVE Successors(_, _, _)
Successors(S, node_id, fuel) ==
    IF fuel = 0 THEN <<>>
    ELSE LET node == GetNode(S, node_id)
             next == IF node = None THEN None ELSE node[1].parent_id
         IN IF next = None THEN <<node_id>>
            ELSE <<node_id>> \o Successors(S, next[1], fuel - 1)

\* A walk that ends yields at most Len(S.nodes) + 1 ids: every id but the last
\* resolves, each to a different occupied slot.
LongestAncestry(S) == Len(S.nodes) + 1

\* Scene::get_node_ancestry_list up to one id more than the longest walk that
\* ends: a list that long stands for a walk that never ends.
GetNodeAncestryList(S, node_id) == Successors(S, node_id, LongestAncestry(S) + 1)

\* The walk revisits a node, so collecting it never finishes.
NeverEnds(S, node_ancestry_list) == Len(node_ancestry_list) > LongestAncestry(S)

\* acc * transform of list[k] * ... * transform of list[1]; each slot is read by
\* index alone and unwrapped.
RECURSIVE FoldAncestry(_, _, _, _)
FoldAncestry(S, acc, list, k) ==
    IF k = 0 THEN Ok(acc)
    ELSE LET slot == S.nodes[list[k].index + 1] IN
         IF slot.node = None THEN Panic
         ELSE FoldAncestry(S, TransformMul(acc, slot.node[1].transform), list, k - 1)

\* node-first fold: acc * transform of list[k] * ... * transform of list[n].
RECURSIVE FoldAncestryForward(_, _, _, _)
FoldAncestryForward(S, acc, list, k) ==
    IF k > Len(list) THEN Ok(acc)
    ELSE LET slot == S.nodes[list[k].index + 1] IN
         IF slot.node = None THEN Panic
         ELSE FoldAncestryForward(S, TransformMul(acc, slot.node[1].transform), list, k + 1)

\* Mutant of get_global_transform_for_node: the ancestry list is folded without
\* being reversed, the node first and the root last.
GetGlobalTransformForNodeUnreversed(S, node_id) ==
    LET node_ancestry_list == GetNodeAncestryList(S, node_id)
    IN IF NeverEnds(S, node_ancestry_list) THEN Diverges
       ELSE FoldAncestryForward(S, IDENTITY, node_ancestry_list, 1)

\* Scene::get_global_transform_for_node
GetGlobalTransformForNode(S, node_id) ==
    LET node_ancestry_list == GetNodeAncestryList(S, node_id)
    IN IF NeverEnds(S, node_ancestry_list) THEN Diverges
       ELSE FoldAncestry(S, IDENTITY, node_ancestry_list, Len(node_ancestry_list))

MAX_NODE_HIERARCHY_LEVELS == 32

\* Mutant of get_global_transform_for_node_internal: the fixed array holds one
\* entry more than MAX_NODE_HIERARCHY_LEVELS.
GetGlobalTransformForNodeInternalOneLevelMore(S, node_id) ==
    LET list == Successors(S, node_id, MAX_NODE_HIERARCHY_LEVELS + 2)
        ancestry_length == Len(list)
        first == S.nodes[list[ancestry_length].index + 1]
    IN IF ancestry_length > MAX_NODE_HIERARCHY_LEVELS + 1 THEN Panic
       ELSE IF first.node = None THEN Panic
       ELSE FoldAncestry(S, first.node[1].transform, list, ancestry_length - 1)

\* Mutant of get_global_transform_for_node_internal: the product starts at the
\* transform of the last entry and then multiplies every entry, the last one
\* included, as the walk that starts at IDENTITY does.
GetGlobalTransformForNodeInternalRootTwice(S, node_id) ==
    LET list == Successors(S, node_id, MAX_NODE_HIERARCHY_LEVELS + 1)
        ancestry_length == Len(list)
        first == S.nodes[list[ancestry_length].index + 1]
    IN IF ancestry_length > MAX_NODE_HIERARCHY_LEVELS THEN Panic
       ELSE IF first.node = None THEN Panic
       ELSE FoldAncestry(S, first.node[1].transform, list, ancestry_length)

\* Scene::get_global_transform_for_node_internal: the ancestry is written into a
\* fixed array of MAX_NODE_HIERARCHY_LEVELS entries, and the write of one entry
\* more is out of bounds; the product starts at the transform of the last entry.
GetGlobalTransformForNodeInternal(S, node_id) ==
    LET list == Successors(S, node_id, MAX_NODE_HIERARCHY_LEVELS + 1)
        ancestry_length == Len(list)
        first == S.nodes[list[ancestry_length].index + 1]
    IN IF ancestry_length > MAX_NODE_HIERARCHY_LEVELS THEN Panic
       ELSE IF first.node = None THEN Panic
       ELSE FoldAncestry(S, first.node[1].transform, list, ancestry_length - 1)

\* The bounding box of every bound mesh (renderer_data.binded_meshes[i].bounding_box).
BoundingBoxMin == <<0, 0, 0>>
BoundingBoxMax == <<2, 0, 0>>

\* build_mesh_bounding_sphere
BuildMeshBoundingSphere(mesh_index, global_transform) ==
    LET largest_axis_scale == global_transform.scale
        center == TransformPoint3(global_transform,
                                  Vec3Half(Vec3Add(BoundingBoxMax, BoundingBoxMin)))
        half_length == Vec3Half(Vec3Sub(BoundingBoxMax, BoundingBoxMin))
    IN [center |-> center, radius |-> largest_axis_scale * Vec3Length(half_length)]

\* Scene::get_node_bounding_sphere: an Option<Sphere>, or a panic of the global
\* transform it asks for.
GetNodeBoundingSphere(S, node_id) ==
    LET node == GetNode(S, node_id) IN
    IF node = None \/ node[1].visual = None THEN [panic |-> FALSE, value |-> None]
    ELSE LET g == GetGlobalTransformForNode(S, node_id) IN
         IF g = Diverges THEN Diverges
         ELSE IF g.panic THEN [panic |-> TRUE, value |-> None]
         ELSE [panic |-> FALSE,
               value |-> Some(BuildMeshBoundingSphere(node[1].visual[1].mesh_index, g.value))]

\* The loop of Scene::recompute_global_node_transforms: the global transform of
\* every slot (the default for an empty one), or a panic.
RecomputedGlobalNodeTransforms(S) ==
    LET per == [k \in 1..Len(S.nodes) |->
                   IF S.nodes[k].node = None THEN Ok(IDENTITY)
                   ELSE GetGlobalTransformForNodeInternal(S, S.nodes[k].node[1].id)]
    IN IF \E k \in 1..Len(S.nodes) : per[k].panic THEN [panic |-> TRUE, value |-> <<>>]
       ELSE [panic |-> FALSE, value |-> [k \in 1..Len(S.nodes) |-> per[k].value]]

\* The walk of get_skeleton_node_ancestry_list over slot indices: an index, then
\* the index its parent map gives for it, as long as there is one.  The maps of
\* the scenes built here have no cycle.
RECURSIVE SkeletonIndexWalk(_, _)
SkeletonIndexWalk(skeleton_parent_index_map, node_index) ==
    IF node_index \in DOMAIN skeleton_parent_index_map
    THEN <<node_index>>
             \o SkeletonIndexWalk(skeleton_parent_index_map, skeleton_parent_index_map[node_index])
    ELSE <<node_index>>

\* Scene::get_skeleton_node_ancestry_list: each index of the walk with the
\* generation its slot has now.
GetSkeletonNodeAncestryList(S, node_id, skeleton_root_node_id) ==
    IF skeleton_root_node_id.index \in DOMAIN S.skeleton_parent_index_maps
    THEN LET walk == SkeletonIndexWalk(
                         S.skeleton_parent_index_maps[skeleton_root_node_id.index],
                         node_id.index)
         IN [k \in 1..Len(walk) |-> GameNodeId(walk[k], S.nodes[walk[k] + 1].gen)]
    ELSE <<>>

\* Scene::get_global_transform_for_node_opt: the cache read at the slot index of
\* the id; an index past the end of the vector panics.
GetGlobalTransformForNodeOpt(transforms, node_id) ==
    IF node_id.index < Len(transforms) THEN Ok(transforms[node_id.index + 1]) ELSE Panic

\* Scene::get_node_bounding_sphere_opt
GetNodeBoundingSphereOpt(bounding_spheres, node_id) ==
    IF node_id.index < Len(bounding_spheres) THEN Ok(bounding_spheres[node_id.index + 1])
    ELSE Panic

\* Sphere::default()
DefaultSphere == [center |-> <<0, 0, 0>>, radius |-> 0]

\* The loop of Scene::recompute_global_node_transforms from slot k on: an entry
\* of the caches is overwritten where it exists and pushed where it does not.
RECURSIVE RecomputeLoop(_, _, _, _)
RecomputeLoop(S, transforms, bounding_spheres, k) ==
    IF k > Len(S.nodes)
    THEN [panic |-> FALSE, global_node_transforms |-> transforms,
          global_node_bounding_spheres |-> bounding_spheres]
    ELSE LET node == S.nodes[k].node
             t == IF node = None THEN Ok(IDENTITY)
                  ELSE GetGlobalTransformForNodeInternal(S, node[1].id)
             bounding_sphere ==
                 IF node = None \/ node[1].visual = None THEN DefaultSphere
                 ELSE BuildMeshBoundingSphere(node[1].visual[1].mesh_index, t.value)
         IN IF t.panic
            THEN [panic |-> TRUE, global_node_transforms |-> transforms,
                  global_node_bounding_spheres |-> bounding_spheres]
            ELSE IF k <= Len(transforms)
            THEN RecomputeLoop(S, [transforms EXCEPT ![k] = t.value],
                               [bounding_spheres EXCEPT ![k] = bounding_sphere], k + 1)
            ELSE RecomputeLoop(S, Append(transforms, t.value),
                               Append(bounding_spheres, bounding_sphere), k + 1)

\* Scene::recompute_global_node_transforms: caches longer than the arena are
\* truncated, then the loop runs.
RecomputeGlobalNodeTransforms(S, transforms, bounding_spheres) ==
    IF Len(S.nodes) <= Len(transforms)
    THEN RecomputeLoop(S, SubSeq(transforms, 1, Len(S.nodes)),
                       SubSeq(bounding_spheres, 1, Len(S.nodes)), 1)
    ELSE RecomputeLoop(S, transforms, bounding_spheres, 1)

\* AnimationState::default()
DefaultAnimationState ==
    [current_time_seconds |-> 0, is_playing |-> FALSE, loop_type |-> "Once"]

\* The add_node loop of Scene::new over nodes_desc[k..].
RECURSIVE AddIndexedNodes(_, _, _)
AddIndexedNodes(S, nodes_desc, k) ==
    IF k > Len(nodes_desc) THEN S
    ELSE LET d == nodes_desc[k]
             parent_id == IF d.parent_index = None THEN None
                          ELSE Some(GameNodeId(d.parent_index[1], 0))
         IN AddIndexedNodes(
                AddNode(S, GameNodeDesc(d.transform, d.skin_index, d.visual, parent_id)).scene,
                nodes_desc, k + 1)

\* Scene::new
SceneNew(nodes_desc, indexed_skins, indexed_animations) ==
    LET animations ==
            [a \in 1..Len(indexed_animations) |->
                [length_seconds |-> indexed_animations[a].length_seconds,
                 speed |-> 1,
                 channels |->
                     [c \in 1..Len(indexed_animations[a].channels) |->
                         [node_id |-> GameNodeId(indexed_animations[a].channels[c].node_index, 0),
                          property |-> indexed_animations[a].channels[c].property,
                          interpolation_type |->
                              indexed_animations[a].channels[c].interpolation_type,
                          keyframe_timings |-> indexed_animations[a].channels[c].keyframe_timings,
                          keyframe_values_u8 |->
                              indexed_animations[a].channels[c].keyframe_values_u8]],
                 state |-> DefaultAnimationState]]
        scene0 == SceneOf(<<>>, <<>>, <<>>, animations, <<>>)
        scene1 == AddIndexedNodes(scene0, nodes_desc, 1)
        skinNode(skin_index) ==
            LET ns == Nodes(scene1)
                k == CHOOSE k \in 1..Len(ns) :
                        /\ ns[k].skin_index = Some(skin_index)
                        /\ \A j \in 1..(k - 1) : ns[j].skin_index # Some(skin_index)
            IN ns[k]
        skins ==
            [s \in 1..Len(indexed_skins) |->
                [node_id |-> skinNode(s - 1).id,
                 bone_node_ids |->
                     [b \in 1..Len(indexed_skins[s].bone_node_indices) |->
                         GameNodeId(indexed_skins[s].bone_node_indices[b], 0)]]]
    IN RebuildSkeletonParentIndexMaps([scene1 EXCEPT !.skins = skins])

\* The closure convert_node_id of merge_scene.
ConvertNodeId(old_node_id, node_index_offset) ==
    GameNodeId(old_node_id.index + node_index_offset, 0)

\* The rewrite merge_scene applies to one slot of other_scene.
ConvertSlot(slot, node_index_offset, skin_index_offset, mesh_index_offset, material_index_offset) ==
    IF slot.node = None THEN slot
    ELSE LET node == slot.node[1]
             visual == IF node.visual = None THEN None
                       ELSE Some([mesh_index |-> node.visual[1].mesh_index + mesh_index_offset,
                                  binded_material_index |->
                                      IF node.visual[1].binded_material_index = None THEN None
                                      ELSE Some(node.visual[1].binded_material_index[1]
                                                + material_index_offset)])
             skin_index == IF node.skin_index = None THEN None
                           ELSE Some(node.skin_index[1] + skin_index_offset)
             parent_id == IF node.parent_id = None THEN None
                          ELSE Some(ConvertNodeId(node.parent_id[1], node_index_offset))
         IN Slot(Some([transform |-> node.transform, skin_index |-> skin_index,
                       visual |-> visual, parent_id |-> parent_id,
                       id |-> ConvertNodeId(node.id, node_index_offset)]),
                 slot.gen)

ConvertSkin(skin, node_index_offset) ==
    [node_id |-> ConvertNodeId(skin.node_id, node_index_offset),
     bone_node_ids |-> [b \in 1..Len(skin.bone_node_ids) |->
                           ConvertNodeId(skin.bone_node_ids[b], node_index_offset)]]

ConvertAnimation(animation, node_index_offset) ==
    [animation EXCEPT !.channels =
        [c \in 1..Len(animation.channels) |->
            [animation.channels[c] EXCEPT !.node_id = ConvertNodeId(@, node_index_offset)]]]

\* Mutant of merge_scene: the ids are rewritten after the arenas are joined, in
\* every slot of the joined arena instead of the slots of other_scene.
MergeSceneConvertingJoined(S, R, other_scene, other_render_buffers) ==
    LET node_index_offset == Len(S.nodes)
        joined == S.nodes \o other_scene.nodes
        converted == [k \in 1..Len(joined) |->
                         ConvertSlot(joined[k], node_index_offset, Len(S.skins),
                                     R.binded_meshes, R.binded_pbr_materials)]
        other_skins == [k \in 1..Len(other_scene.skins) |->
                           ConvertSkin(other_scene.skins[k], node_index_offset)]
        other_animations == [k \in 1..Len(other_scene.animations) |->
                                ConvertAnimation(other_scene.animations[k], node_index_offset)]
    IN [scene |-> RebuildSkeletonParentIndexMaps(
                      [S EXCEPT !.nodes = converted,
                                !.skins = @ \o other_skins,
                                !.animations = @ \o other_animations]),
        renderer_data |->
            [binded_meshes |-> R.binded_meshes + other_render_buffers.binded_meshes,
             binded_pbr_materials |->
                 R.binded_pbr_materials + other_render_buffers.binded_pbr_materials]]

\* Scene::merge_scene: the scene and the renderer data after the call.  R and
\* other_render_buffers hold the lengths of binded_meshes and binded_pbr_materials.
MergeScene(S, R, other_scene, other_render_buffers) ==
    LET mesh_index_offset == R.binded_meshes
        material_index_offset == R.binded_pbr_materials
        skin_index_offset == Len(S.skins)
        node_index_offset == Len(S.nodes)
        other_nodes == [k \in 1..Len(other_scene.nodes) |->
                           ConvertSlot(other_scene.nodes[k], node_index_offset,
                                       skin_index_offset, mesh_index_offset,
                                       material_index_offset)]
        other_skins == [k \in 1..Len(other_scene.skins) |->
                           ConvertSkin(other_scene.skins[k], node_index_offset)]
        other_animations == [k \in 1..Len(other_scene.animations) |->
                                ConvertAnimation(other_scene.animations[k], node_index_offset)]
    IN [scene |-> RebuildSkeletonParentIndexMaps(
                      [S EXCEPT !.nodes = @ \o other_nodes,
                                !.skins = @ \o other_skins,
                                !.animations = @ \o other_animations]),
        renderer_data |->
            [binded_meshes |-> R.binded_meshes + other_render_buffers.binded_meshes,
             binded_pbr_materials |->
                 R.binded_pbr_materials + other_render_buffers.binded_pbr_materials]]

\* ------------------------------------------------------------------ keyframes
\* Scalars are whole numbers: a time is a number of ticks of the clock, and an
\* interpolation factor is kept as the fraction num / den it is computed from.
\* A quotient is taken once, at the end of an expression.
Factor(num, den) == [num |-> num, den |-> den]
ONE == Factor(1, 1)

\* v * k and a + b for vectors of any arity (Vec3, Quat).
VecScale(v, k) == [i \in 1..Len(v) |-> v[i] * k]
VecAdd(a, b) == [i \in 1..Len(a) |-> a[i] + b[i]]
VecDiv(v, k) == [i \in 1..Len(v) |-> v[i] \div k]

\* bytemuck::cast_slice::<_, [f32; n]>: the buffer read as consecutive groups
\* of n scalars.
CastSlice(buf, n) == [k \in 1..(Len(buf) \div n) |-> SubSeq(buf, n * (k - 1) + 1, n * k)]

\* get_basic_keyframe_values: one value of n scalars per keyframe.
GetBasicKeyframeValues(channel, n) == CastSlice(channel.keyframe_values_u8, n)

\* get_cubic_keyframe_values: per keyframe the in-tangent, the value and the
\* out-tangent, n scalars each.
GetCubicKeyframeValues(channel, n) ==
    LET groups == CastSlice(channel.keyframe_values_u8, 3 * n)
    IN [k \in 1..Len(groups) |-> CastSlice(groups[k], n)]

KeyframeTime(index, time) == [index |-> index, time |-> time]

\* .enumerate().filter(time <= moment).last(): the scan keeps the latest match.
RECURSIVE FilterLast(_, _, _, _)
FilterLast(keyframe_times, animation_time_seconds, k, found) ==
    IF k > Len(keyframe_times) THEN found
    ELSE FilterLast(keyframe_times, animation_time_seconds, k + 1,
                    IF keyframe_times[k] <= animation_time_seconds
                    THEN Some(KeyframeTime(k - 1, keyframe_times[k])) ELSE found)

\* .enumerate().filter(time <= moment).next(): the scan stops at the first match.
RECURSIVE FilterFirst(_, _, _)
FilterFirst(keyframe_times, animation_time_seconds, k) ==
    IF k > Len(keyframe_times) THEN None
    ELSE IF keyframe_times[k] <= animation_time_seconds
    THEN Some(KeyframeTime(k - 1, keyframe_times[k]))
    ELSE FilterFirst(keyframe_times, animation_time_seconds, k + 1)

\* .enumerate().find(time > moment): the scan stops at the first match.
RECURSIVE Find(_, _, _)
Find(keyframe_times, animation_time_seconds, k) ==
    IF k > Len(keyframe_times) THEN None
    ELSE IF keyframe_times[k] > animation_time_seconds
    THEN Some(KeyframeTime(k - 1, keyframe_times[k]))
    ELSE Find(keyframe_times, animation_time_seconds, k + 1)

\* Mutant of get_nearby_keyframes: the previous keyframe is the first one at or
\* before the moment.
GetNearbyKeyframesFirstBefore(keyframe_times, animation_time_seconds) ==
    [previous |-> FilterFirst(keyframe_times, animation_time_seconds, 1),
     next |-> Find(keyframe_times, animation_time_seconds, 1)]

\* get_nearby_keyframes: the last keyframe at or before the moment and the first
\* one after it, with 0-based indices.
GetNearbyKeyframes(keyframe_times, animation_time_seconds) ==
    [previous |-> FilterLast(keyframe_times, animation_time_seconds, 1, None),
     next |-> Find(keyframe_times, animation_time_seconds, 1)]

\* math::lerp_vec: b * alpha + a * (1.0 - alpha)
LerpVec(a, b, alpha) ==
    VecDiv(VecAdd(VecScale(b, alpha.num), VecScale(a, alpha.den - alpha.num)), alpha.den)

\* Mutant of do_cubic_interpolation: the tangent terms are weighted by t_3 and
\* t_2 alone, so they do not vanish at the end of the span.
DoCubicInterpolationKeepingTangents(previous_keyframe_value, next_keyframe_value, keyframe_length, interpolation_factor) ==
    LET n == interpolation_factor.num
        d == interpolation_factor.den
        v_k == previous_keyframe_value[2]
        t_d == keyframe_length
        b_k == previous_keyframe_value[3]
        v_k_1 == next_keyframe_value[2]
        a_k_1 == next_keyframe_value[1]
    IN VecDiv(VecAdd(VecAdd(VecScale(v_k, 2 * n * n * n - 3 * n * n * d + d * d * d),
                            VecScale(b_k, t_d * (n * n * n))),
                     VecAdd(VecScale(v_k_1, 3 * n * n * d - 2 * n * n * n),
                            VecScale(a_k_1, t_d * (n * n * d)))),
              d * d * d)

\* do_cubic_interpolation, with t = n / d and every term over d^3:
\*   v_k (2t^3 - 3t^2 + 1) + b_k t_d (t^3 - 2t^2 + t)
\*     + v_k_1 (-2t^3 + 3t^2) + a_k_1 t_d (t^3 - t^2)
DoCubicInterpolation(previous_keyframe_value, next_keyframe_value, keyframe_length, interpolation_factor) ==
    LET n == interpolation_factor.num
        d == interpolation_factor.den
        v_k == previous_keyframe_value[2]
        t_d == keyframe_length
        b_k == previous_keyframe_value[3]
        v_k_1 == next_keyframe_value[2]
        a_k_1 == next_keyframe_value[1]
    IN VecDiv(VecAdd(VecAdd(VecScale(v_k, 2 * n * n * n - 3 * n * n * d + d * d * d),
                            VecScale(b_k, t_d * (n * n * n - 2 * n * n * d + n * d * d))),
                     VecAdd(VecScale(v_k_1, 3 * n * n * d - 2 * n * n * n),
                            VecScale(a_k_1, t_d * (n * n * n - n * n * d)))),
              d * d * d)

\* The keyframe used as next and the interpolation factor, given that a previous
\* keyframe exists.
NextAndFactor(animation_time_seconds, previous_keyframe, next_keyframe) ==
    IF next_keyframe # None
    THEN [next_keyframe |-> next_keyframe[1],
          interpolation_factor |->
              Factor(animation_time_seconds - previous_keyframe.time,
                     next_keyframe[1].time - previous_keyframe.time)]
    ELSE [next_keyframe |-> previous_keyframe, interpolation_factor |-> ONE]

\* Mutant of get_vec3_at_moment: before the first keyframe the last value of the
\* buffer is returned.
GetVec3AtMomentFromLast(channel, animation_time_seconds, previous_keyframe, next_keyframe) ==
    LET basic == GetBasicKeyframeValues(channel, 3)
    IN basic[Len(basic)]

\* Mutant of get_vec3_at_moment: with no next keyframe the factor is 0 against
\* the first keyframe.
GetVec3AtMomentFromFirst(channel, animation_time_seconds, previous_keyframe, next_keyframe) ==
    GetBasicKeyframeValues(channel, 3)[1]

\* get_vec3_at_moment
GetVec3AtMoment(channel, animation_time_seconds, previous_keyframe, next_keyframe) ==
    IF previous_keyframe # None
    THEN LET previous == previous_keyframe[1]
             nf == NextAndFactor(animation_time_seconds, previous, next_keyframe)
             next == nf.next_keyframe
         IN CASE channel.interpolation_type = "Linear" ->
                    LET keyframe_values == GetBasicKeyframeValues(channel, 3)
                    IN LerpVec(keyframe_values[previous.index + 1],
                               keyframe_values[next.index + 1], nf.interpolation_factor)
              [] channel.interpolation_type = "Step" ->
                    GetBasicKeyframeValues(channel, 3)[previous.index + 1]
              [] channel.interpolation_type = "CubicSpline" ->
                    LET keyframe_values == GetCubicKeyframeValues(channel, 3)
                    IN DoCubicInterpolation(keyframe_values[previous.index + 1],
                                            keyframe_values[next.index + 1],
                                            next.time - previous.time,
                                            nf.interpolation_factor)
    ELSE CASE channel.interpolation_type = "Linear" -> GetBasicKeyframeValues(channel, 3)[1]
           [] channel.interpolation_type = "Step" -> GetBasicKeyframeValues(channel, 3)[1]
           [] channel.interpolation_type = "CubicSpline" ->
                  GetCubicKeyframeValues(channel, 3)[1][2]

\* Quat::slerp and Quat::normalize belong to the glam crate: their results are
\* kept as terms over their arguments.
QuatSlerp(a, b, alpha) == <<"slerp", <<a, b, alpha>>>>
QuatNormalize(q) == <<"normalize", q>>

\* get_quat_at_moment
GetQuatAtMoment(channel, animation_time_seconds, previous_keyframe, next_keyframe) ==
    IF previous_keyframe # None
    THEN LET previous == previous_keyframe[1]
             nf == NextAndFactor(animation_time_seconds, previous, next_keyframe)
             next == nf.next_keyframe
         IN CASE channel.interpolation_type = "Linear" ->
                    LET keyframe_values == GetBasicKeyframeValues(channel, 4)
                    IN QuatSlerp(keyframe_values[previous.index + 1],
                                 keyframe_values[next.index + 1], nf.interpolation_factor)
              [] channel.interpolation_type = "Step" ->
                    GetBasicKeyframeValues(channel, 4)[previous.index + 1]
              [] channel.interpolation_type = "CubicSpline" ->
                    LET keyframe_values == GetCubicKeyframeValues(channel, 4)
                    IN QuatNormalize(
                           DoCubicInterpolation(keyframe_values[previous.index + 1],
                                                keyframe_values[next.index + 1],
                                                next.time - previous.time,
                                                nf.interpolation_factor))
    ELSE CASE channel.interpolation_type = "Linear" -> GetBasicKeyframeValues(channel, 4)[1]
           [] channel.interpolation_type = "Step" -> GetBasicKeyframeValues(channel, 4)[1]
           [] channel.interpolation_type = "CubicSpline" ->
                  GetCubicKeyframeValues(channel, 4)[1][2]

\* ------------------------------------------------------------------ animation driver
\* One staged write: Op::Translation, Op::Scale or Op::Rotation with its value,
\* and the node it is for.
StagedOp(node_id, kind, value) == [node_id |-> node_id, kind |-> kind, value |-> value]

\* f32 % f32: the remainder takes the sign of the dividend.
Rem(a, b) == IF a >= 0 THEN a % b ELSE -((-a) % b)

\* Mutant of the evaluation time: PingPong wraps like the other loop types.
AnimationTimeSecondsWrapping(state, length_seconds) ==
    Rem(state.current_time_seconds, length_seconds)

\* step_animations: animation_time_seconds of one animation.
AnimationTimeSeconds(state, length_seconds) ==
    IF state.loop_type = "PingPong"
    THEN LET forwards == Rem(state.current_time_seconds \div length_seconds, 2) = 0
         IN IF forwards
            THEN Rem(state.current_time_seconds, length_seconds)
            ELSE length_seconds - Rem(state.current_time_seconds, length_seconds)
    ELSE Rem(state.current_time_seconds, length_seconds)

\* Mutant of the advance of the play-head: Once also stops at the length itself.
AdvanceStateStoppingAtLength(animation, delta_time_seconds) ==
    LET current_time_seconds ==
            animation.state.current_time_seconds + delta_time_seconds * animation.speed
    IN IF animation.state.loop_type = "Once" /\ current_time_seconds >= animation.length_seconds
       THEN [animation.state EXCEPT !.current_time_seconds = 0, !.is_playing = FALSE]
       ELSE [animation.state EXCEPT !.current_time_seconds = current_time_seconds]

\* Mutant of the advance of the play-head: Once beyond the length starts over at
\* 0 and goes on playing.
AdvanceStateStartingOver(animation, delta_time_seconds) ==
    LET current_time_seconds ==
            animation.state.current_time_seconds + delta_time_seconds * animation.speed
    IN IF animation.state.loop_type = "Once" /\ current_time_seconds > animation.length_seconds
       THEN [animation.state EXCEPT !.current_time_seconds = 0]
       ELSE [animation.state EXCEPT !.current_time_seconds = current_time_seconds]

\* step_animations: the state of a playing animation after the advance of its
\* play-head.
AdvanceState(animation, delta_time_seconds) ==
    LET current_time_seconds ==
            animation.state.current_time_seconds + delta_time_seconds * animation.speed
    IN IF animation.state.loop_type = "Once" /\ current_time_seconds > animation.length_seconds
       THEN [animation.state EXCEPT !.current_time_seconds = 0, !.is_playing = FALSE]
       ELSE [animation.state EXCEPT !.current_time_seconds = current_time_seconds]

\* step_animations: the writes staged for channels k.. of an animation at a moment.
RECURSIVE StageChannels(_, _, _)
StageChannels(channels, animation_time_seconds, k) ==
    IF k > Len(channels) THEN <<>>
    ELSE LET channel == channels[k]
             near == GetNearbyKeyframes(channel.keyframe_timings, animation_time_seconds)
             op == CASE channel.property = "Translation" ->
                           Some(StagedOp(channel.node_id, "Translation",
                                         GetVec3AtMoment(channel, animation_time_seconds,
                                                         near.previous, near.next)))
                     [] channel.property = "Scale" ->
                           Some(StagedOp(channel.node_id, "Scale",
                                         GetVec3AtMoment(channel, animation_time_seconds,
                                                         near.previous, near.next)))
                     [] channel.property = "Rotation" ->
                           Some(StagedOp(channel.node_id, "Rotation",
                                         GetQuatAtMoment(channel, animation_time_seconds,
                                                         near.previous, near.next)))
                     [] OTHER -> None
         IN op \o StageChannels(channels, animation_time_seconds, k + 1)

\* Mutant of the body of the first loop: an animation that is not playing is
\* stepped like one that is.
StageAnimationAlways(animation, delta_time_seconds) ==
    LET state == AdvanceState(animation, delta_time_seconds)
    IN [animation |-> [animation EXCEPT !.state = state],
        ops |-> StageChannels(animation.channels,
                              AnimationTimeSeconds(state, animation.length_seconds), 1)]

\* Mutant of the body of the first loop: an animation that the advance has
\* stopped is not sampled in that call.
StageAnimationSkippingStopped(animation, delta_time_seconds) ==
    IF ~animation.state.is_playing THEN [animation |-> animation, ops |-> <<>>]
    ELSE LET state == AdvanceState(animation, delta_time_seconds)
         IN [animation |-> [animation EXCEPT !.state = state],
             ops |-> IF ~state.is_playing THEN <<>>
                     ELSE StageChannels(animation.channels,
                                        AnimationTimeSeconds(state, animation.length_seconds), 1)]

\* step_animations: the body of the first loop for one animation: the animation
\* after it and the writes it stages.
StageAnimation(animation, delta_time_seconds) ==
    IF ~animation.state.is_playing THEN [animation |-> animation, ops |-> <<>>]
    ELSE LET state == AdvanceState(animation, delta_time_seconds)
         IN [animation |-> [animation EXCEPT !.state = state],
             ops |-> StageChannels(animation.channels,
                                   AnimationTimeSeconds(state, animation.length_seconds), 1)]

\* step_animations: the first loop over animations k.., in order.
RECURSIVE StageAnimations(_, _, _)
StageAnimations(anims, delta_time_seconds, k) ==
    IF k > Len(anims) THEN [animations |-> <<>>, ops |-> <<>>]
    ELSE LET head == StageAnimation(anims[k], delta_time_seconds)
             rest == StageAnimations(anims, delta_time_seconds, k + 1)
         IN [animations |-> <<head.animation>> \o rest.animations,
             ops |-> head.ops \o rest.ops]

\* step_animations: one staged write applied through get_node_mut.  The
\* transform keeps a position and a uniform scale: set_scale takes the scale of
\* the first axis, set_rotation changes neither.
ApplyOp(S, op) ==
    IF GetNodeMut(S, op.node_id) = None THEN S
    ELSE CASE op.kind = "Translation" ->
                  [S EXCEPT !.nodes[op.node_id.index + 1].node[1].transform.position = op.value]
           [] op.kind = "Scale" ->
                  [S EXCEPT !.nodes[op.node_id.index + 1].node[1].transform.scale = op.value[1]]
           [] op.kind = "Rotation" -> S

\* step_animations: the second loop, over ops[k..] in order.
RECURSIVE ApplyOps(_, _, _)
ApplyOps(S, ops, k) ==
    IF k > Len(ops) THEN S ELSE ApplyOps(ApplyOp(S, ops[k]), ops, k + 1)

\* The second loop run from the last staged write to the first.
RECURSIVE ApplyOpsBackwards(_, _, _)
ApplyOpsBackwards(S, ops, k) ==
    IF k < 1 THEN S ELSE ApplyOpsBackwards(ApplyOp(S, ops[k]), ops, k - 1)

\* Mutant of step_animations: the staged writes are applied last first.
StepAnimationsApplyingLastFirst(S, delta_time_seconds) ==
    LET staged == StageAnimations(S.animations, delta_time_seconds, 1)
    IN [scene |-> ApplyOpsBackwards([S EXCEPT !.animations = staged.animations],
                                    staged.ops, Len(staged.ops)),
        ops |-> staged.ops]

\* step_animations: the scene after the call, and the writes it staged.
StepAnimations(S, delta_time_seconds) ==
    LET staged == StageAnimations(S.animations, delta_time_seconds, 1)
    IN [scene |-> ApplyOps([S EXCEPT !.animations = staged.animations], staged.ops, 1),
        ops |-> staged.ops]

\* ------------------------------------------------------------------ inputs
\* What the asset loader hands to Scene::new, with the lengths of the render
\* buffers it binds for the scene.
LoaderEmpty ==
    [nodes_desc |-> <<>>, indexed_skins |-> <<>>, animations |-> <<>>,
     binded_meshes |-> 0, binded_pbr_materials |-> 0]

\* A skinned mesh node and one bone below it, animated by one channel.
LoaderRig ==
    [nodes_desc |->
        <<[transform |-> TX, skin_index |-> Some(0),
           visual |-> Some(GameNodeVisual(0, Some(0))), parent_index |-> None],
          [transform |-> S2, skin_index |-> None, visual |-> None,
           parent_index |-> Some(0)]>>,
     indexed_skins |-> <<[bone_node_indices |-> <<1>>]>>,
     animations |->
        <<[length_seconds |-> 2,
           channels |-> <<[node_index |-> 1, property |-> "Translation",
                           interpolation_type |-> "Linear", keyframe_timings |-> <<0, 2>>,
                           keyframe_values_u8 |-> <<0, 0, 0, 2, 0, 0>>]>>]>>,
     binded_meshes |-> 1, binded_pbr_materials |-> 1]

\* The chain A (root), B (parent A), C (parent B) with translations only.
LoaderChain ==
    [nodes_desc |->
        <<[transform |-> IDENTITY, skin_index |-> None, visual |-> None,
           parent_index |-> None],
          [transform |-> TX, skin_index |-> None, visual |-> None,
           parent_index |-> Some(0)],
          [transform |-> TY, skin_index |-> None, visual |-> None,
           parent_index |-> Some(1)]>>,
     indexed_skins |-> <<>>, animations |-> <<>>,
     binded_meshes |-> 0, binded_pbr_materials |-> 0]

LoaderOutputs == {LoaderEmpty, LoaderRig, LoaderChain}

\* Two animated nodes.  The first animation moves node 1 through two channels
\* that write the same property; the second scales node 0 and carries a channel
\* of morph target weights, which step_animations does not write.
LoaderAnimated ==
    [nodes_desc |->
        <<[transform |-> IDENTITY, skin_index |-> None, visual |-> None,
           parent_index |-> None],
          [transform |-> TX, skin_index |-> None, visual |-> None,
           parent_index |-> Some(0)]>>,
     indexed_skins |-> <<>>,
     animations |->
        <<[length_seconds |-> 2,
           channels |-> <<[node_index |-> 1, property |-> "Translation",
                           interpolation_type |-> "Step", keyframe_timings |-> <<1>>,
                           keyframe_values_u8 |-> <<0, 4, 0>>],
                          [node_index |-> 1, property |-> "Translation",
                           interpolation_type |-> "Linear", keyframe_timings |-> <<0, 2>>,
                           keyframe_values_u8 |-> <<0, 0, 0, 2, 0, 0>>]>>],
          [length_seconds |-> 2,
           channels |-> <<[node_index |-> 0, property |-> "Scale",
                           interpolation_type |-> "Step", keyframe_timings |-> <<0, 2>>,
                           keyframe_values_u8 |-> <<2, 2, 2, 3, 3, 3>>],
                          [node_index |-> 0, property |-> "MorphTargetWeights",
                           interpolation_type |-> "Step", keyframe_timings |-> <<0>>,
                           keyframe_values_u8 |-> <<1>>]>>]>>,
     binded_meshes |-> 0, binded_pbr_materials |-> 0]

\* A loaded scene with its render buffers.
Load(d) ==
    [scene |-> SceneNew(d.nodes_desc, d.indexed_skins, d.animations),
     render_buffers |-> [binded_meshes |-> d.binded_meshes,
                         binded_pbr_materials |-> d.binded_pbr_materials]]

\* The ids a client can read off the live nodes (GameNode::id).
NodeIds(S) == {n.id : n \in Range(Nodes(S))}

\* The transforms of nodes added at run time.
RuntimeTransforms == {TX}

\* The parents a client can give a new node: none, or a live node.
ParentChoices(S) == {None} \cup {Some(id) : id \in NodeIds(S)}

\* The descriptors of nodes added at run time.
RuntimeDescs(S) ==
    {GameNodeDesc(t, None, None, p) : t \in RuntimeTransforms, p \in ParentChoices(S)}

\* Whether add_node stays inside the bounds of the model.
RECURSIVE SumGens(_, _)
SumGens(S, k) == IF k > Len(S.nodes) THEN 0 ELSE S.nodes[k].gen + SumGens(S, k + 1)

CanAdd(S, maxNodes, maxGen) ==
    IF S.empty_node_indices = <<>> THEN Len(S.nodes) < maxNodes
    ELSE SumGens(S, 1) < maxGen

\* The scenes one add_node or remove_node call away from a loaded scene B.
OtherStep(B) ==
    {[B EXCEPT !.scene = AddNode(B.scene, desc).scene] :
        desc \in IF CanAdd(B.scene, MaxOtherNodes, MaxMergeGen)
                 THEN {GameNodeDesc(TX, None, None, p) : p \in ParentChoices(B.scene)}
                 ELSE {}}
    \cup {[B EXCEPT !.scene = RemoveNode(B.scene, id)] : id \in NodeIds(B.scene)}

RECURSIVE OtherReach(_)
OtherReach(k) ==
    IF k = 0
    THEN {Load(d) : d \in {x \in LoaderOutputs : Len(x.nodes_desc) <= MaxOtherNodes}}
    ELSE LET prev == OtherReach(k - 1) IN prev \cup UNION {OtherStep(B) : B \in prev}

\* The scenes handed to merge_scene: loaded, then changed by at most MaxOtherSteps
\* add_node and remove_node calls.
OtherScenes == {B \in OtherReach(MaxOtherSteps) : Len(B.scene.nodes) > 0}

\* ------------------------------------------------------------------ state
VARIABLES
    nodes,                        \* Scene::nodes
    empty_node_indices,           \* Scene::empty_node_indices
    skins,                        \* Scene::skins
    animations,                   \* Scene::animations
    skeleton_parent_index_maps,   \* Scene::skeleton_parent_index_maps
    renderer_data,                \* lengths of RendererData's binded_meshes, binded_pbr_materials
    issued,                       \* history: the ids add_node has returned
    removed,                      \* history: the ids remove_node has removed
    last,                         \* history: the last call, its id and merged-in scene
    global_node_transforms,       \* Scene::global_node_transforms
    global_node_bounding_spheres, \* Scene::global_node_bounding_spheres
    sample                        \* a channel, a moment and the value sampled there

vars == <<nodes, empty_node_indices, skins, animations, skeleton_parent_index_maps,
          renderer_data, issued, removed, last, global_node_transforms,
          global_node_bounding_spheres, sample>>

\* The caches of the scene.
caches == <<global_node_transforms, global_node_bounding_spheres>>

\* The receiving scene.
Self == SceneOf(nodes, empty_node_indices, skins, animations, skeleton_parent_index_maps)

SetScene(S) ==
    /\ nodes' = S.nodes
    /\ empty_node_indices' = S.empty_node_indices
    /\ skins' = S.skins
    /\ animations' = S.animations
    /\ skeleton_parent_index_maps' = S.skeleton_parent_index_maps

Call(op, id, other) == [op |-> op, id |-> id, other |-> other]

\* No channel is being sampled.
NoSample == [channel |-> None, animation_time_seconds |-> 0, value |-> None]

\* The state after Scene::new on what the loader hands over: the caches are
\* empty vectors.
InitFrom(outputs) ==
    \E d \in outputs :
        LET B == Load(d) IN
        /\ nodes = B.scene.nodes
        /\ empty_node_indices = B.scene.empty_node_indices
        /\ skins = B.scene.skins
        /\ animations = B.scene.animations
        /\ skeleton_parent_index_maps = B.scene.skeleton_parent_index_maps
        /\ renderer_data = B.render_buffers
        /\ issued = NodeIds(B.scene)
        /\ removed = {}
        /\ last = Call("new", None, None)
        /\ global_node_transforms = <<>>
        /\ global_node_bounding_spheres = <<>>
        /\ sample = NoSample

Init == InitFrom(LoaderOutputs)

\* scene.add_node(desc)
AddNodeWithin(maxNodes, maxGen) ==
    /\ CanAdd(Self, maxNodes, maxGen)
    /\ \E desc \in RuntimeDescs(Self) :
          LET r == AddNode(Self, desc) IN
          /\ SetScene(r.scene)
          /\ issued' = issued \cup {r.id}
          /\ last' = Call("add_node", Some(r.id), None)
    /\ UNCHANGED <<renderer_data, removed, caches, sample>>

AddNodeCall == AddNodeWithin(MaxNodes, MaxGen)

AddNodeMergeCall == AddNodeWithin(MaxMergeNodes, MaxMergeGen)

\* scene.remove_node(id), with an id the client holds: live or stale.
RemoveNodeCall ==
    \E id \in issued \cup NodeIds(Self) :
        /\ SetScene(RemoveNode(Self, id))
        /\ removed' = IF GetNode(Self, id) # None THEN removed \cup {id} ELSE removed
        /\ last' = Call("remove_node", Some(id), None)
        /\ UNCHANGED <<renderer_data, issued, caches, sample>>

\* scene.merge_scene(renderer_data, other_scene, other_render_buffers)
MergeSceneWithin(maxNodes) ==
    \E B \in OtherScenes :
        /\ Len(nodes) + Len(B.scene.nodes) <= maxNodes
        /\ LET r == MergeScene(Self, renderer_data, B.scene, B.render_buffers) IN
           /\ SetScene(r.scene)
           /\ renderer_data' = r.renderer_data
        /\ last' = Call("merge_scene", None, Some(B.scene))
        /\ UNCHANGED <<issued, removed, caches, sample>>

MergeSceneCall == MergeSceneWithin(MaxMergeNodes)

Next == AddNodeCall \/ RemoveNodeCall

\* Scenes built by add_node and remove_node.
Spec == Init /\ [][Next]_vars

NextMerge == AddNodeMergeCall \/ RemoveNodeCall \/ MergeSceneCall

\* Scenes built by add_node, remove_node and merge_scene.
SpecMerge == Init /\ [][NextMerge]_vars

\* ------------------------------------------------------------------ sampling
RECURSIVE Flatten(_)
Flatten(seqs) == IF seqs = <<>> THEN <<>> ELSE Head(seqs) \o Flatten(Tail(seqs))

\* The keyframe times of a channel: strictly increasing, as the loader reads them.
KeyframeTimings ==
    {q \in UNION {[1..n -> 0..MaxKeyframeTime] : n \in 1..MaxKeyframes} :
        \A i \in 1..(Len(q) - 1) : q[i] < q[i + 1]}

\* The value, in-tangent and out-tangent of keyframe k, of arity n.
KeyValue(k, n, m) == [i \in 1..n |-> m * (2 * k + i)]
InTangent(k, n, m) == [i \in 1..n |-> m * (k + i)]
OutTangent(k, n, m) == [i \in 1..n |-> m * (3 * k - i)]

\* The value buffer of a channel with count keyframes.
KeyframeValues(interpolation_type, count, n, m) ==
    IF interpolation_type = "CubicSpline"
    THEN Flatten([k \in 1..count |->
                     InTangent(k, n, m) \o KeyValue(k, n, m) \o OutTangent(k, n, m)])
    ELSE Flatten([k \in 1..count |-> KeyValue(k, n, m)])

Interpolations == {"Step", "Linear", "CubicSpline"}

\* The number of scalars of one value of a property.
Arity(property) == IF property = "Rotation" THEN 4 ELSE 3

Channel(node_id, property, interpolation_type, keyframe_timings, keyframe_values_u8) ==
    [node_id |-> node_id, property |-> property, interpolation_type |-> interpolation_type,
     keyframe_timings |-> keyframe_timings, keyframe_values_u8 |-> keyframe_values_u8]

SampleChannels ==
    {Channel(GameNodeId(0, 0), property, interpolation_type, keyframe_timings,
             KeyframeValues(interpolation_type, Len(keyframe_timings), Arity(property), m)) :
        property \in {"Translation", "Rotation"}, interpolation_type \in Interpolations,
        keyframe_timings \in KeyframeTimings, m \in {1, -1}}

\* The moments a channel is sampled at: before, between, at and after keyframes.
SampleTimes == 0..(MaxKeyframeTime + 1)

\* A channel and a moment, before any scene is loaded.
InitSample ==
    LET B == Load(LoaderEmpty) IN
    /\ nodes = B.scene.nodes
    /\ empty_node_indices = B.scene.empty_node_indices
    /\ skins = B.scene.skins
    /\ animations = B.scene.animations
    /\ skeleton_parent_index_maps = B.scene.skeleton_parent_index_maps
    /\ renderer_data = B.render_buffers
    /\ issued = {}
    /\ removed = {}
    /\ last = Call("new", None, None)
    /\ global_node_transforms = <<>>
    /\ global_node_bounding_spheres = <<>>
    /\ \E channel \in SampleChannels, t \in SampleTimes :
          sample = [channel |-> Some(channel), animation_time_seconds |-> t, value |-> None]

\* The sampling of one channel in step_animations: get_nearby_keyframes, then
\* get_vec3_at_moment for a translation or a scale.
SampleVec3Call ==
    /\ sample.channel # None /\ sample.value = None
    /\ sample.channel[1].property \in {"Translation", "Scale"}
    /\ LET channel == sample.channel[1]
           near == GetNearbyKeyframes(channel.keyframe_timings, sample.animation_time_seconds)
       IN sample' = [sample EXCEPT !.value =
                        Some(GetVec3AtMoment(channel, sample.animation_time_seconds,
                                             near.previous, near.next))]
    /\ UNCHANGED <<nodes, empty_node_indices, skins, animations, skeleton_parent_index_maps,
                   renderer_data, issued, removed, last, caches>>

\* The same for a rotation, through get_quat_at_moment.
SampleQuatCall ==
    /\ sample.channel # None /\ sample.value = None
    /\ sample.channel[1].property = "Rotation"
    /\ LET channel == sample.channel[1]
           near == GetNearbyKeyframes(channel.keyframe_timings, sample.animation_time_seconds)
       IN sample' = [sample EXCEPT !.value =
                        Some(GetQuatAtMoment(channel, sample.animation_time_seconds,
                                             near.previous, near.next))]
    /\ UNCHANGED <<nodes, empty_node_indices, skins, animations, skeleton_parent_index_maps,
                   renderer_data, issued, removed, last, caches>>

NextSample == SampleVec3Call \/ SampleQuatCall

\* The keyframe sampler on every channel and moment of the bounds.
SpecSample == InitSample /\ [][NextSample]_vars

\* ------------------------------------------------------- keyframe search
\* The time arrays handed to get_nearby_keyframes: empty, in any order, with
\* repeated times.
NearbyKeyframeTimes == UNION {[1..n -> 0..MaxNearbyTime] : n \in 0..MaxNearbyKeyframes}

\* The moments searched for: before, between, on and after the keyframes.
NearbyMoments == (0 - 1)..(MaxNearbyTime + 1)

InitNearby ==
    LET B == Load(LoaderEmpty) IN
    /\ nodes = B.scene.nodes
    /\ empty_node_indices = B.scene.empty_node_indices
    /\ skins = B.scene.skins
    /\ animations = B.scene.animations
    /\ skeleton_parent_index_maps = B.scene.skeleton_parent_index_maps
    /\ renderer_data = B.render_buffers
    /\ issued = {}
    /\ removed = {}
    /\ last = Call("new", None, None)
    /\ global_node_transforms = <<>>
    /\ global_node_bounding_spheres = <<>>
    /\ \E keyframe_times \in NearbyKeyframeTimes, t \in NearbyMoments :
          sample = [channel |-> Some([keyframe_timings |-> keyframe_times]),
                    animation_time_seconds |-> t, value |-> None]

\* get_nearby_keyframes(&channel.keyframe_timings, animation_time_seconds)
GetNearbyKeyframesCall ==
    /\ sample.channel # None /\ sample.value = None
    /\ sample' = [sample EXCEPT !.value =
                     Some(GetNearbyKeyframes(sample.channel[1].keyframe_timings,
                                             sample.animation_time_seconds))]
    /\ last' = Call("get_nearby_keyframes", None, None)
    /\ UNCHANGED <<nodes, empty_node_indices, skins, animations, skeleton_parent_index_maps,
                   renderer_data, issued, removed, caches>>

NextNearby == GetNearbyKeyframesCall

\* The keyframe search on every time array and moment of the bounds.
SpecNearby == InitNearby /\ [][NextNearby]_vars

\* ------------------------------------------------------------------ stepping
LoopTypes == {"Once", "Wrap", "PingPong"}

\* The elapsed times handed to step_animations.
DeltaTimes == {1, 2}

InitAnim == InitFrom({LoaderAnimated})

\* A client starts or pauses an animation and picks its loop type (the fields
\* of AnimationState are public).
SetAnimationStateCall ==
    /\ \E a \in 1..Len(animations), is_playing \in BOOLEAN, loop_type \in LoopTypes :
          animations' = [animations EXCEPT ![a].state.is_playing = is_playing,
                                           ![a].state.loop_type = loop_type]
    /\ last' = Call("set_state", None, None)
    /\ UNCHANGED <<nodes, empty_node_indices, skins, skeleton_parent_index_maps,
                   renderer_data, issued, removed, caches, sample>>

\* step_animations(scene, delta_time_seconds)
StepAnimationsCall ==
    \E delta_time_seconds \in DeltaTimes :
        /\ \A a \in 1..Len(animations) :
              animations[a].state.is_playing =>
                  Abs(animations[a].state.current_time_seconds
                          + delta_time_seconds * animations[a].speed) <= MaxAnimTime
        /\ \E r \in {StepAnimations(Self, delta_time_seconds)} :
           /\ SetScene(r.scene)
           /\ last' = Call("step_animations", None,
                           Some([delta_time_seconds |-> delta_time_seconds, ops |-> r.ops]))
        /\ UNCHANGED <<renderer_data, issued, removed, caches, sample>>

\* scene.add_node(desc) into a freed slot.
AddNodeAnimCall == AddNodeWithin(0, MaxAnimGen)

NextAnim == SetAnimationStateCall \/ StepAnimationsCall \/ AddNodeAnimCall \/ RemoveNodeCall

\* An animated scene stepped while nodes are removed and added.
SpecAnim == InitAnim /\ [][NextAnim]_vars

\* ------------------------------------------------------------------ caches
AddNodeCacheCall == AddNodeWithin(MaxCacheNodes, MaxCacheGen)

MergeSceneCacheCall == MergeSceneWithin(MaxCacheNodes)

\* scene.recompute_global_node_transforms(renderer_data), where it returns: a
\* panic inside it ends the program.
RecomputeGlobalNodeTransformsCall ==
    LET r == RecomputeGlobalNodeTransforms(Self, global_node_transforms,
                                           global_node_bounding_spheres)
    IN /\ ~r.panic
       /\ global_node_transforms' = r.global_node_transforms
       /\ global_node_bounding_spheres' = r.global_node_bounding_spheres
       /\ last' = Call("recompute_global_node_transforms", None, None)
       /\ UNCHANGED <<nodes, empty_node_indices, skins, animations,
                      skeleton_parent_index_maps, renderer_data, issued, removed, sample>>

NextCache ==
    \/ AddNodeCacheCall
    \/ RemoveNodeCall
    \/ MergeSceneCacheCall
    \/ RecomputeGlobalNodeTransformsCall

\* Scenes built by add_node, remove_node and merge_scene, with the caches
\* recomputed at any moment.
SpecCache == Init /\ [][NextCache]_vars

\* ------------------------------------------------------------ frame loop
\* The animated scene with each animation started or not, in any loop type, by
\* the client before the frame loop runs.
InitLive ==
    LET B == Load(LoaderAnimated) IN
    /\ nodes = B.scene.nodes
    /\ empty_node_indices = B.scene.empty_node_indices
    /\ skins = B.scene.skins
    /\ \E playing \in [DOMAIN B.scene.animations -> BOOLEAN],
          loop_types \in [DOMAIN B.scene.animations -> LoopTypes] :
          animations = [a \in DOMAIN B.scene.animations |->
                           [B.scene.animations[a] EXCEPT !.state.is_playing = playing[a],
                                                         !.state.loop_type = loop_types[a]]]
    /\ skeleton_parent_index_maps = B.scene.skeleton_parent_index_maps
    /\ renderer_data = B.render_buffers
    /\ issued = NodeIds(B.scene)
    /\ removed = {}
    /\ last = Call("new", None, None)
    /\ global_node_transforms = <<>>
    /\ global_node_bounding_spheres = <<>>
    /\ sample = NoSample

NextLive == StepAnimationsCall

\* Whether StepAnimationsCall can take a step that changes the state: some
\* elapsed time keeps every playing animation within MaxAnimTime (the call then
\* moves a play-head or records another elapsed time in `last`).
StepPossible ==
    \E delta_time_seconds \in DeltaTimes :
        \A a \in 1..Len(animations) :
            animations[a].state.is_playing =>
                Abs(animations[a].state.current_time_seconds
                        + delta_time_seconds * animations[a].speed) <= MaxAnimTime

\* Weak fairness of StepAnimationsCall, WF_vars(StepAnimationsCall), written
\* out with StepPossible for ENABLED <<StepAnimationsCall>>_vars: the frame loop
\* calls step_animations every frame for as long as the program runs.
FrameLoopNeverStalls == []<>~StepPossible \/ []<><<StepAnimationsCall>>_vars

\* The frame loop alone, each tick with a positive elapsed time.
SpecLive == InitLive /\ [][NextLive]_vars /\ FrameLoopNeverStalls

\* ------------------------------------------------------- playback speed
\* The speeds a client gives an animation (Animation::speed is public):
\* forwards and backwards.
Speeds == {0 - 1, 1}

\* The animated scene with each animation started or not, in any loop type and
\* at either speed.
InitSpeed ==
    LET B == Load(LoaderAnimated) IN
    /\ nodes = B.scene.nodes
    /\ empty_node_indices = B.scene.empty_node_indices
    /\ skins = B.scene.skins
    /\ \E playing \in [DOMAIN B.scene.animations -> BOOLEAN],
          loop_types \in [DOMAIN B.scene.animations -> LoopTypes],
          speeds \in [DOMAIN B.scene.animations -> Speeds] :
          animations = [a \in DOMAIN B.scene.animations |->
                           [B.scene.animations[a] EXCEPT !.state.is_playing = playing[a],
                                                         !.state.loop_type = loop_types[a],
                                                         !.speed = speeds[a]]]
    /\ skeleton_parent_index_maps = B.scene.skeleton_parent_index_maps
    /\ renderer_data = B.render_buffers
    /\ issued = NodeIds(B.scene)
    /\ removed = {}
    /\ last = Call("new", None, None)
    /\ global_node_transforms = <<>>
    /\ global_node_bounding_spheres = <<>>
    /\ sample = NoSample

NextSpeed == StepAnimationsCall

\* The animated scene stepped with animations that run forwards or backwards.
SpecSpeed == InitSpeed /\ [][NextSpeed]_vars

\* ---------------------------------------------------------------------------
\* Deep hierarchies and rewritten parents: a scene grown as one chain, a node
\* per add_node under the node added before, in which the client then writes one
\* node's public parent_id through get_node_mut.

\* scene.get_node_mut(node_id).map(|node| node.parent_id = parent_id)
SetParentId(S, node_id, parent_id) ==
    LET node == GetNodeMut(S, node_id) IN
    IF node = None THEN S
    ELSE [S EXCEPT !.nodes[node_id.index + 1].node = Some([node[1] EXCEPT !.parent_id = parent_id])]

\* The program is still running: no call has panicked or failed to return.
Running == last.other \notin {Some(Panic), Some(Diverges)}

\* The chain is still being grown: no parent_id was rewritten and nothing was
\* read yet.
Growing == last.op \in {"new", "add_node"}

\* The node added last, the first, and one half way between them.
Leaf == GameNodeId(Len(nodes) - 1, 0)
Root == GameNodeId(0, 0)
Middle == GameNodeId(Len(nodes) \div 2, 0)

\* scene.add_node(desc) with the node added before as parent.
AddChildCall ==
    /\ Growing
    /\ Len(nodes) < MaxHierarchyNodes
    /\ \E transform \in (IF nodes = <<>> THEN {TX, S2} ELSE {TX}) :
          LET parent_id == IF nodes = <<>> THEN None ELSE Some(Leaf)
              r == AddNode(Self, GameNodeDesc(transform, None, None, parent_id))
          IN /\ SetScene(r.scene)
             /\ issued' = issued \cup {r.id}
             /\ last' = Call("add_node", Some(r.id), None)
    /\ UNCHANGED <<renderer_data, removed, caches, sample>>

\* scene.get_node_mut(id).unwrap().parent_id = parent_id, of the first node,
\* the last or the middle one: no parent, the node itself, the first node or the
\* last.
SetParentIdCall ==
    /\ Growing
    /\ \E id \in {Root, Leaf, Middle} \cap NodeIds(Self) :
          \E parent_id \in {None, Some(id), Some(Root), Some(Leaf)} :
             /\ SetScene(SetParentId(Self, id, parent_id))
             /\ last' = Call("set_parent_id", Some(id), parent_id)
    /\ UNCHANGED <<renderer_data, issued, removed, caches, sample>>

\* scene.get_global_transform_for_node(id) for the first node, the last, or the
\* one whose parent was rewritten; the outcome is kept in `last`.
GetGlobalTransformForNodeCall ==
    /\ Running
    /\ last.op \in {"add_node", "set_parent_id"}
    /\ \E id \in {Root, Leaf, last.id[1]} :
          last' = Call("get_global_transform_for_node", Some(id),
                       Some(GetGlobalTransformForNode(Self, id)))
    /\ UNCHANGED <<nodes, empty_node_indices, skins, animations, skeleton_parent_index_maps,
                   renderer_data, issued, removed, caches, sample>>

\* scene.recompute_global_node_transforms(renderer_data); a panic inside it is
\* kept in `last` and ends the program with the caches as they were.
RecomputeOrPanicCall ==
    LET r == RecomputeGlobalNodeTransforms(Self, global_node_transforms,
                                           global_node_bounding_spheres)
    IN /\ Running
       /\ last.op # "recompute_global_node_transforms"
       /\ global_node_transforms' = IF r.panic THEN global_node_transforms
                                    ELSE r.global_node_transforms
       /\ global_node_bounding_spheres' = IF r.panic THEN global_node_bounding_spheres
                                          ELSE r.global_node_bounding_spheres
       /\ last' = Call("recompute_global_node_transforms", None,
                       IF r.panic THEN Some(Panic) ELSE None)
       /\ UNCHANGED <<nodes, empty_node_indices, skins, animations,
                      skeleton_parent_index_maps, renderer_data, issued, removed, sample>>

InitHierarchy == InitFrom({LoaderEmpty})

NextHierarchy ==
    \/ AddChildCall
    \/ SetParentIdCall
    \/ GetGlobalTransformForNodeCall
    \/ RecomputeOrPanicCall

SpecHierarchy == InitHierarchy /\ [][NextHierarchy]_vars

\* ------------------------------------------------------------------ claims
\* Every id whose slot index lies inside the arena, with every generation up to
\* one past the largest stored one.
MaxSlotGen(S) ==
    IF S.nodes = <<>> THEN 0
    ELSE CHOOSE g \in {S.nodes[k].gen : k \in 1..Len(S.nodes)} :
            \A k \in 1..Len(S.nodes) : S.nodes[k].gen <= g

AllIds(S) ==
    {GameNodeId(i, g) : i \in 0..(Len(S.nodes) - 1), g \in 0..(MaxSlotGen(S) + 1)}

\* C1: for an id inside the arena, get_node and get_node_mut return a node if and
\* only if the slot is occupied and its stored generation equals the id's; the
\* node returned is the one in that slot; otherwise they return None.
C1_GetNodeIffOccupiedAndSameGen ==
    \A id \in AllIds(Self) :
        LET slot == nodes[id.index + 1]
            valid == slot.node # None /\ slot.gen = id.gen
        IN /\ GetNode(Self, id) = (IF valid THEN slot.node ELSE None)
           /\ GetNodeMut(Self, id) = (IF valid THEN slot.node ELSE None)

\* C1 witness: an occupied slot looked up with an older generation gives None,
\* while its current id resolves.
C1_Witness ==
    \E id \in removed :
        /\ nodes[id.index + 1].node # None
        /\ nodes[id.index + 1].gen # id.gen
        /\ GetNode(Self, id) = None
        /\ GetNode(Self, GameNodeId(id.index, nodes[id.index + 1].gen)) # None

\* C2: every id add_node returned and remove_node has not removed resolves to a
\* node carrying that id; every removed id resolves to None, also once its slot
\* has been reused.
C2_LiveIdsResolveRemovedDoNot ==
    \A id \in issued :
        IF id \in removed THEN GetNode(Self, id) = None
        ELSE /\ GetNode(Self, id) # None
             /\ GetNode(Self, id)[1].id = id

\* C2 witness: a slot reused by a later add_node; the new id resolves and the
\* old id of the same slot does not.
C2_Witness ==
    \E old \in removed : \E new \in issued \ removed :
        /\ old.index = new.index
        /\ GetNode(Self, new) # None
        /\ GetNode(Self, old) = None

\* C3: add_node with a non-empty free list places the node in a freed slot,
\* returns that slot's index with the slot's generation + 1 and keeps the arena
\* length; with an empty free list it appends one slot and returns
\* (old arena length, 0).  In both cases the returned id resolves to the new node.
C3_AddNodeReusesOrAppends ==
    [][last'.op = "add_node" =>
        LET id == last'.id[1] IN
        /\ IF empty_node_indices # <<>>
           THEN /\ id.index \in Range(empty_node_indices)
                /\ nodes[id.index + 1].node = None
                /\ id.gen = nodes[id.index + 1].gen + 1
                /\ Len(nodes') = Len(nodes)
                /\ Len(empty_node_indices') = Len(empty_node_indices) - 1
                /\ id.index \notin Range(empty_node_indices')
           ELSE /\ id = GameNodeId(Len(nodes), 0)
                /\ Len(nodes') = Len(nodes) + 1
                /\ empty_node_indices' = <<>>
        /\ nodes'[id.index + 1].node # None
        /\ nodes'[id.index + 1].node[1].id = id
        /\ nodes'[id.index + 1].gen = id.gen
        /\ \A k \in 1..Len(nodes) : k # id.index + 1 => nodes'[k] = nodes[k]
    ]_vars

\* C3 witness: add_node has just reused a freed slot under a newer generation.
C3_Witness ==
    /\ last.op = "add_node"
    /\ last.id[1].gen > 0
    /\ last.id[1].index < Len(nodes) - 1
    /\ GetNode(Self, last.id[1]) # None

\* C4: remove_node with a stale id changes neither the slots nor the free list;
\* with a valid id it empties exactly that slot, keeps its generation and pushes
\* its index on the free list.
C4_RemoveNodeStaleIsNoOp ==
    [][last'.op = "remove_node" =>
        LET id == last'.id[1] IN
        IF GetNode(Self, id) = None
        THEN /\ nodes' = nodes
             /\ empty_node_indices' = empty_node_indices
        ELSE /\ nodes' = [nodes EXCEPT ![id.index + 1] = Slot(None, nodes[id.index + 1].gen)]
             /\ empty_node_indices' = Append(empty_node_indices, id.index)
    ]_vars

\* C4 witness: remove_node was called with the old id of a reused slot, and the
\* slot's current occupant is still there.
C4_Witness ==
    /\ last.op = "remove_node"
    /\ last.id[1] \in removed
    /\ nodes[last.id[1].index + 1].node # None
    /\ nodes[last.id[1].index + 1].gen > last.id[1].gen
    /\ last.id[1].index \notin Range(empty_node_indices)

\* The product the spec expects for a node: the global transform of its parent,
\* when the parent id resolves, times the node's own transform; for an id that
\* does not resolve, no node contributes.
RECURSIVE LiveChainTransform(_, _)
LiveChainTransform(S, node_id) ==
    LET node == GetNode(S, node_id) IN
    IF node = None THEN IDENTITY
    ELSE IF node[1].parent_id = None THEN node[1].transform
    ELSE TransformMul(LiveChainTransform(S, node[1].parent_id[1]), node[1].transform)

\* Whether the id resolves and so does every parent_id up to a root.
RECURSIVE AncestorsAllLive(_, _)
AncestorsAllLive(S, node_id) ==
    LET node == GetNode(S, node_id) IN
    /\ node # None
    /\ node[1].parent_id # None => AncestorsAllLive(S, node[1].parent_id[1])

\* The live nodes whose parent_id names a removed node.
Orphans(S) ==
    {n \in Range(Nodes(S)) : n.parent_id # None /\ GetNode(S, n.parent_id[1]) = None}

\* C5: a child of a removed node stays live with its parent_id unchanged, and
\* its global transform is computed without error: get_global_transform_for_node
\* and the recompute over all occupied slots do not panic, and the result
\* composes only the live nodes of the chain, whether the parent's slot is empty
\* or reused.
C5_OrphanTransformIsNotAnError ==
    \A n \in Orphans(Self) :
        /\ GetGlobalTransformForNode(Self, n.id) = Ok(LiveChainTransform(Self, n.id))
        /\ ~RecomputedGlobalNodeTransforms(Self).panic

\* C6: every lookup given a stale id inside the arena gives None or does nothing:
\* no panic, and nothing read from or changed in the node that now occupies the
\* slot.
C6_StaleLookupsDegrade ==
    \A id \in removed :
        /\ GetNode(Self, id) = None
        /\ GetNodeMut(Self, id) = None
        /\ RemoveNode(Self, id) = Self
        /\ GetNodeBoundingSphere(Self, id) = [panic |-> FALSE, value |-> None]
        /\ GetGlobalTransformForNode(Self, id) = Ok(IDENTITY)

\* C7: a slot's stored generation never decreases; remove_node leaves it
\* unchanged; it changes only when add_node reuses the slot, and then by exactly
\* 1, so that the generation of a slot is the number of times it was reused.
C7_GenerationGrowsByOneOnReuse ==
    [][/\ \A k \in 1..Len(nodes) :
            /\ nodes'[k].gen >= nodes[k].gen
            /\ last'.op = "remove_node" => nodes'[k].gen = nodes[k].gen
            /\ (nodes[k].node = None /\ nodes'[k].node # None)
                   => nodes'[k].gen = nodes[k].gen + 1
            /\ nodes'[k].gen # nodes[k].gen
                   => /\ last'.op = "add_node"
                      /\ nodes[k].node = None
                      /\ nodes'[k].node # None
       /\ \A k \in 1..Len(nodes') :
            nodes'[k].gen + 1 = Cardinality({id \in issued' : id.index = k - 1})
    ]_vars

\* C7 witness: a slot reused twice holds a node under generation 2.
C7_Witness ==
    \E k \in 1..Len(nodes) :
        /\ nodes[k].gen = 2
        /\ nodes[k].node # None
        /\ last.op = "add_node"
        /\ last.id[1] = GameNodeId(k - 1, 2)

\* C8: for a live node whose ancestors are all live the global transform is
\* root.transform * ... * parent.transform * node.transform; on the chain
\* A (root, (0,0,0)), B (parent A, (1,0,0)), C (parent B, (0,1,0)) of translations
\* the position of C's global transform is (1,1,0).
C8_GlobalTransformComposesRootFirst ==
    /\ \A n \in Range(Nodes(Self)) :
          AncestorsAllLive(Self, n.id) =>
              GetGlobalTransformForNode(Self, n.id) = Ok(LiveChainTransform(Self, n.id))
    /\ \A a, b, c \in Range(Nodes(Self)) :
          (/\ a.parent_id = None /\ a.transform = IDENTITY
           /\ b.parent_id = Some(a.id) /\ b.transform = TX
           /\ c.parent_id = Some(b.id) /\ c.transform = TY
           /\ AncestorsAllLive(Self, c.id))
          => GetGlobalTransformForNode(Self, c.id).value.position = <<1, 1, 0>>

\* C8 witness: the chain A, B, C is live and C's global transform is the
\* translation (1,1,0).
C8_Witness ==
    \E a, b, c \in Range(Nodes(Self)) :
        /\ a.parent_id = None /\ a.transform = IDENTITY
        /\ b.parent_id = Some(a.id) /\ b.transform = TX
        /\ c.parent_id = Some(b.id) /\ c.transform = TY
        /\ AncestorsAllLive(Self, c.id)
        /\ GetGlobalTransformForNode(Self, c.id) = Ok(Transform(<<1, 1, 0>>, 1))

\* The ids embedded in scene O paired with the ids found in the same places of
\* the receiving scene, whose last slots, skins and animations are those of O:
\* each node's id and parent_id, each skin's node_id and bone_node_ids, each
\* channel's node_id.
EmbeddedIdPairs(O) ==
    LET node_off == Len(nodes) - Len(O.nodes)
        skin_off == Len(skins) - Len(O.skins)
        anim_off == Len(animations) - Len(O.animations)
        live == {k \in 1..Len(O.nodes) : O.nodes[k].node # None}
    IN {<<O.nodes[k].node[1].id, nodes[k + node_off].node[1].id>> : k \in live}
       \cup {<<O.nodes[k].node[1].parent_id[1], nodes[k + node_off].node[1].parent_id[1]>> :
                k \in {j \in live : O.nodes[j].node[1].parent_id # None}}
       \cup {<<O.skins[k].node_id, skins[k + skin_off].node_id>> : k \in 1..Len(O.skins)}
       \cup UNION {{<<O.skins[k].bone_node_ids[b], skins[k + skin_off].bone_node_ids[b]>> :
                       b \in 1..Len(O.skins[k].bone_node_ids)} : k \in 1..Len(O.skins)}
       \cup UNION {{<<O.animations[k].channels[c].node_id,
                      animations[k + anim_off].channels[c].node_id>> :
                       c \in 1..Len(O.animations[k].channels)} : k \in 1..Len(O.animations)}

\* C9: right after merge_scene every id embedded in the merged-in scene designates
\* the same node as before the merge, now at slot old index + old arena length of
\* the receiving scene, and get_node resolves it to that node (or to None where it
\* resolved to None before), whatever add_node and remove_node calls built the
\* merged-in scene.
C9_MergedReferencesStayConsistent ==
    last.op = "merge_scene" =>
        LET O == last.other[1]
            node_off == Len(nodes) - Len(O.nodes)
        IN \A pair \in EmbeddedIdPairs(O) :
              LET old == pair[1]
                  new == pair[2]
              IN /\ new.index = old.index + node_off
                 /\ IF GetNode(O, old) = None THEN GetNode(Self, new) = None
                    ELSE /\ GetNode(Self, new) # None
                         /\ GetNode(Self, new) = nodes[old.index + node_off + 1].node
                         /\ GetNode(Self, new)[1].transform = GetNode(O, old)[1].transform

\* C10: merge_scene leaves what the receiving scene held before unchanged: every
\* earlier slot keeps its index, generation and node, the free list is the same,
\* every id resolves as before, and the earlier skins and animations keep their
\* positions and contents.
C10_MergeKeepsReceivingSceneHalf ==
    [][last'.op = "merge_scene" =>
        /\ Len(nodes') > Len(nodes)
        /\ \A k \in 1..Len(nodes) : nodes'[k] = nodes[k]
        /\ empty_node_indices' = empty_node_indices
        /\ \A id \in AllIds(Self) : GetNode(Self', id) = GetNode(Self, id)
        /\ Len(skins') >= Len(skins)
        /\ \A k \in 1..Len(skins) : skins'[k] = skins[k]
        /\ Len(animations') >= Len(animations)
        /\ \A k \in 1..Len(animations) : animations'[k] = animations[k]
    ]_vars

\* C10 witness: a scene was merged into a receiving scene that held live nodes,
\* a freed slot, a skin and an animation.
C10_Witness ==
    /\ last.op = "merge_scene"
    /\ Len(nodes) - Len(last.other[1].nodes) >= 2
    /\ empty_node_indices # <<>>
    /\ \E k \in 1..(Len(nodes) - Len(last.other[1].nodes)) : nodes[k].node # None
    /\ Len(skins) - Len(last.other[1].skins) >= 1
    /\ Len(animations) - Len(last.other[1].animations) >= 1

\* ------------------------------------------------------------------ claims: sampling
\* The value of keyframe k (1-based) as it lies in the buffer of a channel.
StoredValue(channel, k) ==
    LET n == Arity(channel.property)
        buf == channel.keyframe_values_u8
    IN IF channel.interpolation_type = "CubicSpline"
       THEN SubSeq(buf, 3 * n * (k - 1) + n + 1, 3 * n * (k - 1) + 2 * n)
       ELSE SubSeq(buf, n * (k - 1) + 1, n * k)

\* A channel has been sampled.
Sampled == sample.channel # None /\ sample.value # None

\* C18: sampled at a moment strictly before the first keyframe time, a channel
\* with at least one keyframe yields the value of its first keyframe (for
\* cubic-spline data the middle slot of the first triple), under Step, Linear
\* and CubicSpline, for vector and for rotation channels.
C18_BeforeFirstKeyframeIsFirstValue ==
    Sampled =>
        LET channel == sample.channel[1] IN
        sample.animation_time_seconds < channel.keyframe_timings[1] =>
            sample.value[1] = StoredValue(channel, 1)

\* C18 witness: a cubic-spline rotation channel with two keyframes sampled before
\* its first keyframe.
C18_Witness ==
    /\ Sampled
    /\ sample.channel[1].property = "Rotation"
    /\ sample.channel[1].interpolation_type = "CubicSpline"
    /\ Len(sample.channel[1].keyframe_timings) = 2
    /\ sample.animation_time_seconds < sample.channel[1].keyframe_timings[1]
    /\ sample.value[1] = StoredValue(sample.channel[1], 1)

\* C19: sampled at or after the last keyframe time, a Step or Linear channel
\* yields the value of its last keyframe: the previous keyframe is used as next
\* with factor 1 (a Linear rotation hands exactly these to Quat::slerp).
C19_AtOrAfterLastKeyframeIsLastValue ==
    Sampled =>
        LET channel == sample.channel[1]
            count == Len(channel.keyframe_timings)
            last_value == StoredValue(channel, count)
        IN (/\ sample.animation_time_seconds >= channel.keyframe_timings[count]
            /\ channel.interpolation_type \in {"Step", "Linear"}) =>
               IF channel.property = "Rotation" /\ channel.interpolation_type = "Linear"
               THEN sample.value[1] = QuatSlerp(last_value, last_value, ONE)
               ELSE sample.value[1] = last_value

\* C19 witness: a Linear translation channel with two keyframes sampled after the
\* last one.
C19_Witness ==
    /\ Sampled
    /\ sample.channel[1].property = "Translation"
    /\ sample.channel[1].interpolation_type = "Linear"
    /\ Len(sample.channel[1].keyframe_timings) = 2
    /\ sample.animation_time_seconds > sample.channel[1].keyframe_timings[2]
    /\ sample.value[1] = StoredValue(sample.channel[1], 2)
    /\ sample.value[1] # StoredValue(sample.channel[1], 1)

\* C20: a cubic-spline channel sampled at the time of keyframe k yields v_k (a
\* rotation hands v_k to Quat::normalize), and the polynomial at factor 1 over
\* the span from keyframe k to keyframe k + 1 yields v_(k+1), whatever the
\* tangents and the length of the span.
C20_CubicSplineMeetsKeyframes ==
    (sample.channel # None /\ sample.channel[1].interpolation_type = "CubicSpline") =>
        LET channel == sample.channel[1]
            n == Arity(channel.property)
            count == Len(channel.keyframe_timings)
            keyframe_values == GetCubicKeyframeValues(channel, n)
        IN /\ \A k \in 1..count :
                 (sample.value # None
                  /\ sample.animation_time_seconds = channel.keyframe_timings[k]) =>
                     IF channel.property = "Rotation"
                     THEN sample.value[1] = QuatNormalize(StoredValue(channel, k))
                     ELSE sample.value[1] = StoredValue(channel, k)
           /\ \A k \in 1..(count - 1) :
                 LET span == channel.keyframe_timings[k + 1] - channel.keyframe_timings[k]
                 IN \A one \in {ONE, Factor(span, span)} :
                       DoCubicInterpolation(keyframe_values[k], keyframe_values[k + 1],
                                            span, one) = StoredValue(channel, k + 1)

\* C20 witness: a cubic-spline translation channel with two keyframes, non-zero
\* tangents and a span of two ticks, sampled at its first keyframe.
C20_Witness ==
    /\ Sampled
    /\ sample.channel[1].property = "Translation"
    /\ sample.channel[1].interpolation_type = "CubicSpline"
    /\ Len(sample.channel[1].keyframe_timings) = 2
    /\ sample.channel[1].keyframe_timings[2] - sample.channel[1].keyframe_timings[1] = 2
    /\ sample.animation_time_seconds = sample.channel[1].keyframe_timings[1]
    /\ sample.value[1] = StoredValue(sample.channel[1], 1)
    /\ GetCubicKeyframeValues(sample.channel[1], 3)[1][3] # <<0, 0, 0>>
    /\ GetCubicKeyframeValues(sample.channel[1], 3)[2][1] # <<0, 0, 0>>

\* ------------------------------------------------------------------ claims: stepping
\* The step taken is a call of step_animations.
IsStep == last'.op = "step_animations"

\* The writes the call staged, and the elapsed time it was given.
StagedOps == last.other[1].ops

\* The indices, in staging order, of the writes for node id of one kind.
OpsFor(ops, id, kind) == {k \in 1..Len(ops) : ops[k].node_id = id /\ ops[k].kind = kind}

\* The largest element of a non-empty set of numbers.
Largest(ks) == CHOOSE k \in ks : \A j \in ks : j <= k

\* A node after the staged writes addressed to its own id, each property taking
\* the value staged last.
NodeAfter(node, ops) ==
    LET translations == OpsFor(ops, node.id, "Translation")
        scales == OpsFor(ops, node.id, "Scale")
        position == IF translations = {} THEN node.transform.position
                    ELSE ops[Largest(translations)].value
        scale == IF scales = {} THEN node.transform.scale
                 ELSE ops[Largest(scales)].value[1]
    IN [node EXCEPT !.transform = Transform(position, scale)]

\* C11: in step_animations a staged write whose target id is stale changes no
\* node: a slot addressed by stale writes only is left as it was, new occupant
\* included; the arena keeps its shape; and every live node still receives the
\* writes staged for its own id in the same call.
C11_StaleWritesAreDropped ==
    [][IsStep =>
          LET ops == last'.other[1].ops IN
          /\ Len(nodes') = Len(nodes)
          /\ empty_node_indices' = empty_node_indices
          /\ \A i \in 1..Len(nodes) :
                /\ (\A k \in 1..Len(ops) :
                       ops[k].node_id.index = i - 1 => GetNode(Self, ops[k].node_id) = None)
                   => nodes'[i] = nodes[i]
                /\ nodes[i].node # None /\ nodes[i].node[1].id.gen = nodes[i].gen
                   => nodes'[i] = Slot(Some(NodeAfter(nodes[i].node[1], ops)), nodes[i].gen)
    ]_vars

\* C11 witness: a call has staged a write for the removed node (1, 0) while slot
\* 1 holds a new occupant, whose transform is the one it was added with, and the
\* scale staged for node 0 in the same call has been applied.
C11_Witness ==
    /\ last.op = "step_animations"
    /\ \E k \in 1..Len(StagedOps) : StagedOps[k].node_id = GameNodeId(1, 0)
    /\ nodes[2].gen = 1 /\ nodes[2].node # None
    /\ nodes[2].node[1].transform = TX
    /\ nodes[1].gen = 0 /\ nodes[1].node # None
    /\ \E k \in 1..Len(StagedOps) :
          /\ StagedOps[k].node_id = GameNodeId(0, 0) /\ StagedOps[k].kind = "Scale"
          /\ nodes[1].node[1].transform.scale = StagedOps[k].value[1]
          /\ StagedOps[k].value[1] # 1

\* C12: a call with elapsed time dt moves the play-head of a playing animation of
\* loop type Once to current_time + dt * speed; beyond the length the play-head
\* is back at 0 and the animation no longer plays; up to and including the
\* length it goes on playing at the advanced time.
C12_OnceStopsBeyondLength ==
    [][IsStep =>
          \A a \in 1..Len(animations) :
              LET state == animations[a].state
                  advanced == state.current_time_seconds
                                  + last'.other[1].delta_time_seconds * animations[a].speed
              IN (state.is_playing /\ state.loop_type = "Once") =>
                    animations'[a].state =
                        IF advanced > animations[a].length_seconds
                        THEN [current_time_seconds |-> 0, is_playing |-> FALSE,
                              loop_type |-> "Once"]
                        ELSE [current_time_seconds |-> advanced, is_playing |-> TRUE,
                              loop_type |-> "Once"]
    ]_vars

\* C12 witness: the first animation, of loop type Once, has been sampled by the
\* call and is left stopped with its play-head at 0; the second, also Once, has
\* reached its length exactly and goes on playing.
C12_Witness ==
    /\ last.op = "step_animations"
    /\ animations[1].state = [current_time_seconds |-> 0, is_playing |-> FALSE,
                              loop_type |-> "Once"]
    /\ \E k \in 1..Len(StagedOps) : StagedOps[k].kind = "Translation"
    /\ animations[2].state = [current_time_seconds |-> animations[2].length_seconds,
                              is_playing |-> TRUE, loop_type |-> "Once"]

\* The number of channels of an animation that step_animations samples.
SampledChannelCount(animation) ==
    Cardinality({c \in 1..Len(animation.channels) :
                    animation.channels[c].property \in {"Translation", "Scale", "Rotation"}})

RECURSIVE SumOver(_, _)
SumOver(f, k) == IF k > Len(f) THEN 0 ELSE f[k] + SumOver(f, k + 1)

\* C13: step_animations leaves an animation that is not playing as it is (time,
\* is_playing, loop type), stages writes for the channels of playing animations
\* only, and leaves every node that no channel of a playing animation targets
\* with its transform.
C13_AnimationNotPlayingIsSkipped ==
    [][IsStep =>
          LET playing == {a \in 1..Len(animations) : animations[a].state.is_playing} IN
          /\ \A a \in 1..Len(animations) : a \notin playing => animations'[a] = animations[a]
          /\ Len(last'.other[1].ops) =
                 SumOver([a \in 1..Len(animations) |->
                             IF a \in playing THEN SampledChannelCount(animations[a]) ELSE 0], 1)
          /\ \A i \in 1..Len(nodes) :
                (nodes[i].node # None
                 /\ \A a \in playing : \A c \in 1..Len(animations[a].channels) :
                       animations[a].channels[c].node_id # nodes[i].node[1].id)
                => nodes'[i] = nodes[i]
    ]_vars

\* C13 witness: the second animation is paused in mid-play while a call has
\* stepped the first: only translations were staged, and node 0 keeps the scale
\* the second animation gave it earlier.
C13_Witness ==
    /\ last.op = "step_animations"
    /\ ~animations[2].state.is_playing
    /\ animations[2].state.current_time_seconds = 1
    /\ StagedOps # <<>>
    /\ \A k \in 1..Len(StagedOps) : StagedOps[k].kind = "Translation"
    /\ nodes[1].node # None /\ nodes[1].node[1].transform.scale = 2

\* The evaluation time of an animation with a positive length and a play-head
\* that is not negative; % is the modulus and \div rounds down.
EvaluationTime(current_time, length, loop_type) ==
    LET cycle == current_time \div length IN
    IF loop_type = "PingPong"
    THEN IF cycle % 2 = 0 THEN current_time % length ELSE length - (current_time % length)
    ELSE current_time % length

\* The writes staged for the animations k.. that were playing, each channel
\* sampled at the evaluation time of the play-head the call left.
RECURSIVE OpsAtEvaluationTime(_, _, _)
OpsAtEvaluationTime(before, after, k) ==
    IF k > Len(before) THEN <<>>
    ELSE (IF before[k].state.is_playing
          THEN StageChannels(after[k].channels,
                             EvaluationTime(after[k].state.current_time_seconds,
                                            after[k].length_seconds, after[k].state.loop_type),
                             1)
          ELSE <<>>)
         \o OpsAtEvaluationTime(before, after, k + 1)

\* C14: every channel of a playing animation is sampled at the evaluation time
\* of the advanced play-head: for PingPong, with cycle = floor(current_time /
\* length), current_time mod length on an even cycle and length minus it on an
\* odd one; for Wrap and Once, current_time mod length.  Length 2 and play-head
\* 3 give 1 under PingPong.
C14_PingPongEvaluationTime ==
    [][IsStep =>
          /\ last'.other[1].ops = OpsAtEvaluationTime(animations, animations', 1)
          /\ AnimationTimeSeconds([current_time_seconds |-> 3, is_playing |-> TRUE,
                                   loop_type |-> "PingPong"], 2) = 1
    ]_vars

\* C14 witness: the first animation, PingPong of length 2, stands at play-head 2
\* after a call (an odd cycle), and its linear channel was sampled at moment 2,
\* the value of its last keyframe.
C14_Witness ==
    /\ last.op = "step_animations"
    /\ animations[1].state = [current_time_seconds |-> 2, is_playing |-> TRUE,
                              loop_type |-> "PingPong"]
    /\ animations[1].length_seconds = 2
    /\ StagedOps[2] = StagedOp(GameNodeId(1, 0), "Translation", <<2, 0, 0>>)

\* The scene with the transform of every node set to the identity.
WithIdentityTransforms(S) ==
    [S EXCEPT !.nodes = [i \in 1..Len(S.nodes) |->
        IF S.nodes[i].node = None THEN S.nodes[i]
        ELSE [S.nodes[i] EXCEPT !.node[1].transform = IDENTITY]]]

\* C15: the writes of one call are staged first and applied afterwards in the
\* order they were staged: every live node ends with, for each property, the
\* value staged last for its id, every other slot is unchanged, and the values
\* staged do not depend on any transform of the scene.
C15_WritesAreBatched ==
    [][IsStep =>
          LET ops == last'.other[1].ops IN
          /\ nodes' = [i \in 1..Len(nodes) |->
                          IF nodes[i].node # None /\ nodes[i].node[1].id.gen = nodes[i].gen
                          THEN Slot(Some(NodeAfter(nodes[i].node[1], ops)), nodes[i].gen)
                          ELSE nodes[i]]
          /\ ops = StepAnimations(WithIdentityTransforms(Self),
                                  last'.other[1].delta_time_seconds).ops
    ]_vars

\* C15 witness: one call staged two different translations for node (1, 0), and
\* the node holds the one staged second.
C15_Witness ==
    /\ last.op = "step_animations"
    /\ Len(StagedOps) >= 2
    /\ StagedOps[1].node_id = GameNodeId(1, 0) /\ StagedOps[1].kind = "Translation"
    /\ StagedOps[2].node_id = GameNodeId(1, 0) /\ StagedOps[2].kind = "Translation"
    /\ StagedOps[1].value # StagedOps[2].value
    /\ nodes[2].gen = 0 /\ nodes[2].node # None
    /\ nodes[2].node[1].transform.position = StagedOps[2].value

\* ------------------------------------------------------------------ claims: skeletons, caches
\* C16: for a live bone of a skin and the skin's node as skeleton root, the
\* skeleton ancestry list starts with the bone, every later element is a bone of
\* that skin, and the last element has no mapped parent; for a skeleton root
\* without a parent map the list is empty.
C16_SkeletonAncestryStaysInBoneSet ==
    /\ \A s \in 1..Len(skins) :
          \A b \in 1..Len(skins[s].bone_node_ids) :
              LET bone == skins[s].bone_node_ids[b]
                  list == GetSkeletonNodeAncestryList(Self, bone, skins[s].node_id)
                  map == skeleton_parent_index_maps[skins[s].node_id.index]
              IN GetNode(Self, bone) # None =>
                    /\ list # <<>>
                    /\ list[1] = bone
                    /\ \A k \in 2..Len(list) : list[k] \in Range(skins[s].bone_node_ids)
                    /\ list[Len(list)].index \notin DOMAIN map
    /\ \A root \in AllIds(Self), id \in AllIds(Self) :
          root.index \notin DOMAIN skeleton_parent_index_maps =>
              GetSkeletonNodeAncestryList(Self, id, root) = <<>>

\* C17: the cached global transforms and the cached bounding spheres are as long
\* as the arena, and as each other, so that get_global_transform_for_node_opt and
\* get_node_bounding_sphere_opt can read them at the slot index of any live node.
C17_CachesAreAsLongAsTheArena ==
    /\ Len(global_node_transforms) = Len(nodes)
    /\ Len(global_node_bounding_spheres) = Len(nodes)
    /\ Len(global_node_transforms) = Len(global_node_bounding_spheres)
    /\ \A id \in NodeIds(Self) :
          /\ ~GetGlobalTransformForNodeOpt(global_node_transforms, id).panic
          /\ ~GetNodeBoundingSphereOpt(global_node_bounding_spheres, id).panic

\* C21: right after recompute_global_node_transforms, the cached transform that
\* get_global_transform_for_node_opt reads for a live node whose ancestors are all
\* live equals get_global_transform_for_node of that node; and in every scene the
\* fixed-array walk, which starts at the root's transform, and the Vec walk,
\* which starts at IDENTITY, give the same product for such a node of depth at
\* most MAX_NODE_HIERARCHY_LEVELS.
C21_CachedTransformEqualsTheWalk ==
    \A id \in NodeIds(Self) :
        (AncestorsAllLive(Self, id)
         /\ Len(GetNodeAncestryList(Self, id)) <= MAX_NODE_HIERARCHY_LEVELS) =>
            /\ GetGlobalTransformForNodeInternal(Self, id) = GetGlobalTransformForNode(Self, id)
            /\ last.op = "recompute_global_node_transforms" =>
                  GetGlobalTransformForNodeOpt(global_node_transforms, id)
                      = GetGlobalTransformForNode(Self, id)

\* The caches were just recomputed and hold, for a live child of a live parent
\* whose transforms do not commute, the product parent * child.
C21_Witness ==
    /\ last.op = "recompute_global_node_transforms"
    /\ \E id \in NodeIds(Self) :
          LET node == GetNode(Self, id)[1] IN
          /\ AncestorsAllLive(Self, id)
          /\ node.parent_id # None
          /\ node.transform = S2
          /\ GetNode(Self, node.parent_id[1])[1].transform = TX
          /\ GetGlobalTransformForNodeOpt(global_node_transforms, id)
                = Ok(TransformMul(TX, S2))

\* Whether the ancestry walk from the node yields more ids than the fixed array
\* holds: a chain deeper than MAX_NODE_HIERARCHY_LEVELS, or a parent cycle.
TooDeep(S, node_id) ==
    LET list == GetNodeAncestryList(S, node_id)
    IN NeverEnds(S, list) \/ Len(list) > MAX_NODE_HIERARCHY_LEVELS

\* C22: the walk of the per-tick recompute gives the product root * ... * node
\* for a node whose ancestry has at most MAX_NODE_HIERARCHY_LEVELS = 32 entries,
\* and panics for a longer chain and for a parent cycle; so
\* recompute_global_node_transforms panics exactly when some live node is that
\* deep, and otherwise leaves the product in the cache.
C22_WalkHoldsAtMost32Levels ==
    /\ \A id \in NodeIds(Self) :
          IF TooDeep(Self, id)
          THEN GetGlobalTransformForNodeInternal(Self, id) = Panic
          ELSE GetGlobalTransformForNodeInternal(Self, id) = Ok(LiveChainTransform(Self, id))
    /\ last.op = "recompute_global_node_transforms" =>
          /\ last.other = Some(Panic) <=> \E id \in NodeIds(Self) : TooDeep(Self, id)
          /\ last.other = None =>
                \A id \in NodeIds(Self) :
                    global_node_transforms[id.index + 1] = LiveChainTransform(Self, id)

\* The recompute panicked on an untouched chain of 33 nodes.
C22_Witness ==
    /\ last = Call("recompute_global_node_transforms", None, Some(Panic))
    /\ Len(nodes) = MAX_NODE_HIERARCHY_LEVELS + 1
    /\ \A k \in 2..Len(nodes) : nodes[k].node[1].parent_id = Some(GameNodeId(k - 2, 0))
    /\ nodes[1].node[1].parent_id = None

\* The recompute returned on an untouched chain of 32 nodes, with the product of
\* all 32 transforms cached for the last node.
C22_WitnessExactly32 ==
    /\ last = Call("recompute_global_node_transforms", None, None)
    /\ Len(nodes) = MAX_NODE_HIERARCHY_LEVELS
    /\ \A k \in 2..Len(nodes) : nodes[k].node[1].parent_id = Some(GameNodeId(k - 2, 0))
    /\ nodes[1].node[1].transform = S2
    /\ global_node_transforms[MAX_NODE_HIERARCHY_LEVELS] = Transform(<<62, 0, 0>>, 2)

\* The recompute panicked on two nodes of which the first names the second as
\* its parent, and the second the first.
C22_WitnessCycle ==
    /\ last = Call("recompute_global_node_transforms", None, Some(Panic))
    /\ Len(nodes) = 2
    /\ nodes[1].node[1].parent_id = Some(GameNodeId(1, 0))
    /\ nodes[2].node[1].parent_id = Some(GameNodeId(0, 0))

\* C23: get_global_transform_for_node returns, with a transform or a panic, in
\* every scene built by Scene::new, add_node and writes of a node's parent_id
\* through get_node_mut: its ancestor walk ends even where a node names itself or
\* a descendant as its parent.
C23_AncestorWalkTerminates ==
    last.op = "get_global_transform_for_node" => last.other # Some(Diverges)

\* C24: get_nearby_keyframes returns as previous the largest index whose time is
\* at or before the moment (of equal times the later index), as next the
\* smallest index whose time is after the moment, each with its index and time,
\* and None where there is no such index: both are None for the empty array.
C24_NearbyKeyframesAreLastBeforeAndFirstAfter ==
    last.op = "get_nearby_keyframes" =>
        LET times == sample.channel[1].keyframe_timings
            t == sample.animation_time_seconds
            near == sample.value[1]
            before == {k \in 1..Len(times) : times[k] <= t}
            after == {k \in 1..Len(times) : times[k] > t}
        IN /\ near.previous = None <=> before = {}
           /\ near.next = None <=> after = {}
           /\ near.previous # None =>
                 /\ near.previous[1].index + 1 \in before
                 /\ \A k \in before : k <= near.previous[1].index + 1
                 /\ near.previous[1].time = times[near.previous[1].index + 1]
           /\ near.next # None =>
                 /\ near.next[1].index + 1 \in after
                 /\ \A k \in after : near.next[1].index + 1 <= k
                 /\ near.next[1].time = times[near.next[1].index + 1]
           /\ times = <<>> => near = [previous |-> None, next |-> None]

\* Times 1, 0, 1 searched at moment 1: the previous keyframe is the third, the
\* later of the two at time 1 and not the one in between; nothing is after.
C24_Witness ==
    /\ last.op = "get_nearby_keyframes"
    /\ sample.channel[1].keyframe_timings = <<1, 0, 1>>
    /\ sample.animation_time_seconds = 1
    /\ sample.value = Some([previous |-> Some(KeyframeTime(2, 1)), next |-> None])

\* C25: add_node and remove_node leave the skeleton parent maps as Scene::new
\* built them, so a live bone keeps its recorded parent after that parent is
\* removed: get_skeleton_node_ancestry_list lists the parent's slot with the
\* generation the slot has now, an id that resolves to nothing while the slot is
\* empty and to whatever node took the slot once it is reused.
C25_SkeletonMapsOutliveRemovedParents ==
    /\ \E d \in LoaderOutputs :
          /\ skins = Load(d).scene.skins
          /\ skeleton_parent_index_maps = Load(d).scene.skeleton_parent_index_maps
    /\ \A s \in 1..Len(skins) :
          \A b \in 1..Len(skins[s].bone_node_ids) :
              LET bone == skins[s].bone_node_ids[b]
                  root == skins[s].node_id
                  map == skeleton_parent_index_maps[root.index]
                  list == GetSkeletonNodeAncestryList(Self, bone, root)
              IN bone.index \in DOMAIN map =>
                    /\ Len(list) >= 2
                    /\ list[1] = GameNodeId(bone.index, nodes[bone.index + 1].gen)
                    /\ list[2] = GameNodeId(map[bone.index], nodes[map[bone.index] + 1].gen)
                    /\ GetNode(Self, list[2]) = nodes[map[bone.index] + 1].node

\* The parent of a live bone was removed and its slot taken by a node added
\* later: the ancestry list of the bone names that later node, by a valid id.
C25_Witness ==
    /\ last.op = "add_node"
    /\ \E s \in 1..Len(skins) :
          \E b \in 1..Len(skins[s].bone_node_ids) :
              LET bone == skins[s].bone_node_ids[b]
                  list == GetSkeletonNodeAncestryList(Self, bone, skins[s].node_id)
              IN /\ GetNode(Self, bone) # None
                 /\ Len(list) = 2
                 /\ GetNode(Self, bone)[1].parent_id = Some(GameNodeId(list[2].index, 0))
                 /\ GameNodeId(list[2].index, 0) \in removed
                 /\ list[2] = last.id[1]
                 /\ list[2].gen = 1
                 /\ GetNode(Self, list[2]) # None

\* The free list names exactly the empty slots, each once, and the live nodes
\* and the free list together account for every slot.
FreeListIsExact(S) ==
    /\ {S.empty_node_indices[k] : k \in 1..Len(S.empty_node_indices)}
          = {i \in 0..(Len(S.nodes) - 1) : S.nodes[i + 1].node = None}
    /\ \A j, k \in 1..Len(S.empty_node_indices) :
          S.empty_node_indices[j] = S.empty_node_indices[k] => j = k
    /\ NodeCount(S) + Len(S.empty_node_indices) = Len(S.nodes)

\* C26: after Scene::new and after every add_node and remove_node, the free list
\* holds exactly the indices of the empty slots, each once, and node_count() plus
\* the length of the free list is the length of the arena; the arena never
\* shrinks, and it grows, by one slot, only in an add_node that found the free
\* list empty.
C26_FreeListAccountsForEverySlot ==
    /\ FreeListIsExact(Self)
    /\ [][/\ FreeListIsExact(Self)'
          /\ Len(nodes') >= Len(nodes)
          /\ Len(nodes') > Len(nodes) =>
                /\ last'.op = "add_node"
                /\ empty_node_indices = <<>>
                /\ Len(nodes') = Len(nodes) + 1
          /\ (last'.op = "add_node" /\ empty_node_indices # <<>>) =>
                Len(nodes') = Len(nodes)]_vars

\* Two slots are free, freed in the order 1, 0, a third is live, and the arena
\* has grown past what Scene::new built.
C26_Witness ==
    /\ empty_node_indices = <<1, 0>>
    /\ NodeCount(Self) = 1
    /\ Len(nodes) = 3
    /\ last.op = "remove_node"
    /\ \E id \in issued : id.index = 2 /\ GetNode(Self, id) # None /\ id \in issued

\* C27: an id that add_node (or Scene::new) handed out and remove_node removed
\* resolves to nothing in every later state, whatever add_node, remove_node and
\* merge_scene calls follow; and add_node never returns an id that was handed
\* out before.
C27_StaleHandlesStayStale ==
    /\ \A id \in removed : GetNode(Self, id) = None /\ GetNodeMut(Self, id) = None
    /\ [][/\ last'.op = "add_node" => last'.id[1] \notin issued
          /\ \A id \in issued : GetNode(Self, id) = None => GetNode(Self, id)' = None]_vars

\* A removed id whose slot was taken again by add_node, after which another
\* scene was merged in: the slot is occupied and the old id still resolves to
\* nothing.
C27_Witness ==
    /\ last.op = "merge_scene"
    /\ \E id \in removed :
          /\ nodes[id.index + 1].node # None
          /\ nodes[id.index + 1].gen = id.gen + 1
          /\ GameNodeId(id.index, id.gen + 1) \in issued
          /\ GetNode(Self, id) = None

\* The animation is stopped with its play-head at 0.
AtRest(a) ==
    /\ ~animations[a].state.is_playing
    /\ animations[a].state.current_time_seconds = 0

\* Whether the call staged a write for a channel of the animation.
StagedFor(ops, animation) ==
    \E c \in 1..Len(animation.channels) : \E k \in 1..Len(ops) :
        /\ ops[k].node_id = animation.channels[c].node_id
        /\ ops[k].kind = animation.channels[c].property

ChannelsFor(animation, node_id, property) ==
    {c \in 1..Len(animation.channels) :
        /\ animation.channels[c].node_id = node_id
        /\ animation.channels[c].property = property}

\* C29: the call in which the advance takes a playing Once animation beyond its
\* length, and stops it, still samples every channel of it, at time 0: the write
\* staged for a translation or scale channel carries the channel's value at
\* time 0, which for the channels here is its first keyframe value; and a live
\* node that no other playing animation targets is left with the value at time
\* 0 of the last channel that writes the property, not with the last keyframe.
C29_TerminalTickWritesTheStartPose ==
    [][IsStep =>
          \A a \in 1..Len(animations) :
              LET animation == animations[a]
                  advanced == animation.state.current_time_seconds
                                  + last'.other[1].delta_time_seconds * animation.speed
                  ops == last'.other[1].ops
              IN (/\ animation.state.is_playing
                  /\ animation.state.loop_type = "Once"
                  /\ advanced > animation.length_seconds) =>
                    \A c \in 1..Len(animation.channels) :
                        LET channel == animation.channels[c]
                            near == GetNearbyKeyframes(channel.keyframe_timings, 0)
                            start == GetVec3AtMoment(channel, 0, near.previous, near.next)
                            mine == ChannelsFor(animation, channel.node_id, channel.property)
                            node == GetNode(Self, channel.node_id)
                            after == GetNode(Self, channel.node_id)'
                        IN channel.property \in {"Translation", "Scale"} =>
                              /\ start = StoredValue(channel, 1)
                              /\ \E k \in 1..Len(ops) :
                                    ops[k] = StagedOp(channel.node_id, channel.property, start)
                              /\ (/\ node # None
                                  /\ c = Largest(mine)
                                  /\ \A b \in 1..Len(animations) :
                                        (b # a /\ animations[b].state.is_playing) =>
                                            ChannelsFor(animations[b], channel.node_id,
                                                        channel.property) = {})
                                 => /\ after # None
                                    /\ channel.property = "Translation" =>
                                          after[1].transform.position = start
                                    /\ channel.property = "Scale" =>
                                          after[1].transform.scale = start[1]
    ]_vars

\* The first animation, of loop type Once, has just been stopped by a call
\* that still staged its two translations for node 1: the node is left at the
\* first keyframe of the second channel, not at the last.
C29_Witness ==
    /\ last.op = "step_animations"
    /\ animations[1].state.loop_type = "Once" /\ AtRest(1)
    /\ StagedFor(StagedOps, animations[1])
    /\ nodes[2].node # None
    /\ nodes[2].node[1].transform.position = StoredValue(animations[1].channels[2], 1)
    /\ nodes[2].node[1].transform.position # StoredValue(animations[1].channels[2], 2)
    /\ nodes[2].node[1].transform.position # TX.position

\* C30: the evaluation time that a call hands to the sampler for an animation it
\* has advanced lies inside the clip, in [0, length) for Wrap and Once and in
\* [0, length] for PingPong, whatever the speed and the elapsed time: also for
\* the negative play-head that a negative speed produces.
C30_EvaluationTimeInsideTheClip ==
    [][IsStep =>
          \A a \in 1..Len(animations) :
              animations[a].state.is_playing =>
                  LET length_seconds == animations'[a].length_seconds
                      animation_time_seconds ==
                          AnimationTimeSeconds(animations'[a].state, length_seconds)
                  IN /\ 0 <= animation_time_seconds
                     /\ IF animations'[a].state.loop_type = "PingPong"
                        THEN animation_time_seconds <= length_seconds
                        ELSE animation_time_seconds < length_seconds
    ]_vars
====
